---- MODULE Spec2Model ----
(***************************************************************************)
(* Model of the Card Ladder automation: the quote sampler getCLValue       *)
(* (src/lib/services/cl_service.js) and the row engine processRow          *)
(* (src/lib/rowprocessor.js) with the write application of main            *)
(* (src/index.js).                                                         *)
(*                                                                         *)
(* Numbers are fixed-point with one decimal place: the integer n stands    *)
(* for the JavaScript number n/10 (1000 is 100, 502 is 50.2).  Strings are *)
(* sequences of one-character strings.                                     *)
(***************************************************************************)
EXTENDS Integers, Sequences, FiniteSets, TLC

(***************************************************************************)
(* JavaScript values: null, strings, numbers and NaN.                      *)
(***************************************************************************)
Null == [t |-> "null", s |-> <<>>, n |-> 0]

NaN == [t |-> "nan", s |-> <<>>, n |-> 0]

Str(chars) == [t |-> "str", s |-> chars, n |-> 0]

Num(k) == [t |-> "num", s |-> <<>>, n |-> k]

Digits == {"0", "1", "2", "3", "4", "5", "6", "7", "8", "9"}

DigitVal(c) ==
    CASE c = "0" -> 0 [] c = "1" -> 1 [] c = "2" -> 2 [] c = "3" -> 3
      [] c = "4" -> 4 [] c = "5" -> 5 [] c = "6" -> 6 [] c = "7" -> 7
      [] c = "8" -> 8 [] c = "9" -> 9

DigitChar(d) ==
    CASE d = 0 -> "0" [] d = 1 -> "1" [] d = 2 -> "2" [] d = 3 -> "3"
      [] d = 4 -> "4" [] d = 5 -> "5" [] d = 6 -> "6" [] d = 7 -> "7"
      [] d = 8 -> "8" [] d = 9 -> "9"

\* truthiness of a value in a condition (x && ..., !x)
Truthy(v) ==
    CASE v.t = "null" -> FALSE
      [] v.t = "nan" -> FALSE
      [] v.t = "str" -> v.s # <<>>
      [] v.t = "num" -> v.n # 0

RECURSIVE NatToStr(_)
NatToStr(k) ==
    IF k < 10 THEN <<DigitChar(k)>>
    ELSE Append(NatToStr(k \div 10), DigitChar(k % 10))

\* String(v)
JsString(v) ==
    CASE v.t = "null" -> <<"n", "u", "l", "l">>
      [] v.t = "nan" -> <<"N", "a", "N">>
      [] v.t = "str" -> v.s
      [] v.t = "num" ->
            IF v.n % 10 = 0 THEN NatToStr(v.n \div 10)
            ELSE NatToStr(v.n \div 10) \o <<".", DigitChar(v.n % 10)>>

RECURSIVE TrimStart(_)
TrimStart(s) ==
    IF s # <<>> /\ Head(s) = " " THEN TrimStart(Tail(s)) ELSE s

RECURSIVE TrimEnd(_)
TrimEnd(s) ==
    IF s # <<>> /\ s[Len(s)] = " " THEN TrimEnd(SubSeq(s, 1, Len(s) - 1)) ELSE s

\* String.prototype.trim
Trim(s) == TrimEnd(TrimStart(s))

IsNumericChar(c) == c \in Digits \cup {"."}

\* s.replace(/[^0-9.]/g, '')
StripNonNumeric(s) == SelectSeq(s, IsNumericChar)

RECURSIVE DigitPrefixLen(_)
DigitPrefixLen(s) ==
    IF s # <<>> /\ Head(s) \in Digits THEN 1 + DigitPrefixLen(Tail(s)) ELSE 0

RECURSIVE DigitsToNat(_)
DigitsToNat(s) ==
    IF s = <<>> THEN 0
    ELSE 10 * DigitsToNat(SubSeq(s, 1, Len(s) - 1)) + DigitVal(s[Len(s)])

\* parseFloat of a string made of digits and dots: the longest prefix of the
\* form digits[.digits]; NaN when that prefix holds no digit.  The fraction is
\* kept to the one decimal place of the fixed-point representation.
ParseFloat(s) ==
    LET t == TrimStart(s)
        il == DigitPrefixLen(t)
        rest == SubSeq(t, il + 1, Len(t))
        hasDot == rest # <<>> /\ Head(rest) = "."
        fl == IF hasDot THEN DigitPrefixLen(Tail(rest)) ELSE 0
        frac == IF fl > 0 THEN DigitVal(rest[2]) ELSE 0
    IN  IF il = 0 /\ fl = 0 THEN NaN
        ELSE Num(10 * DigitsToNat(SubSeq(t, 1, il)) + frac)

\* Math.ceil on the fixed-point representation
Ceil(k) == ((k + 9) \div 10) * 10

MAX_RETRIES == 30

ResultsWaitAttempts == 20

(***************************************************************************)
(* State.  getCLValue: pc is the position inside the call, the other       *)
(* variables are its parameters and locals.  lastPolled, sawRepeat and     *)
(* polls record what the quote loop has read so far.                       *)
(***************************************************************************)
VARIABLES pc, certNumber, previousValue, skipStaleCheck, attempts, found,
          cardLadderValue, higherValue, result, threw,
          lastPolled, sawRepeat, polls

\* apiKey is the fifth argument the callers of getCLValue may pass, apiAnswer
\* what the Card Ladder API would answer to a request for the cert, and
\* apiRequests the number of requests getCLValue has sent to it.
VARIABLES apiKey, apiAnswer, apiRequests

apiVars == <<apiKey, apiAnswer, apiRequests>>

samplerVars == <<pc, certNumber, previousValue, skipStaleCheck, attempts, found,
                 cardLadderValue, higherValue, result, threw,
                 lastPolled, sawRepeat, polls, apiVars>>

\* processRow and the caller's loop body: stage is the position of the caller
\* (before the engine, after it, after the writes were applied), rowData,
\* psaData, clResult and options are what the engine is handed (psaData and
\* clResult being what the collaborators answer when called), instructions
\* what it returned, firstInstructions what it returned on the previous pass
\* over the same record, calls which collaborators it called, clPrices the
\* three prices getCLValue scraped for the answer clResult.
VARIABLES stage, rowData, psaData, clResult, clPrices, options, instructions,
          firstInstructions, calls

rowVars == <<stage, rowData, psaData, clResult, clPrices, options, instructions,
             firstInstructions, calls>>

\* main's loop over the records and the saves (src/index.js): mpc is the
\* position inside main, rowIdx the loop index i (startIndex is 0), rowCount the
\* number of records in the range, rowResult the result of processRow for the
\* record in hand, modifiedSinceSave and timedOutSaves the locals of main.  The
\* others record what has happened: modifiedCount the records modified so far,
\* midSaves, retrySaves and finalSaves the calls of saveUpdatedCells made in the
\* loop, in the retry and after the loop, allSavesOk whether every call so far
\* succeeded, uncovered the modified rows with no save call at or after them,
\* batchCells the field writes since the last first-attempt save call,
\* timedOutCells the field writes of the batch whose save has just timed out,
\* lastOutcome and retryOutcome how the last save in the loop and its retry
\* ended, triggerCalls the save calls made for the record in hand, backedOff
\* whether the 2 s wait preceded the retry, delayOwed whether a save that
\* succeeded at once or was retried has not been followed by the save delay.
VARIABLES mpc, rowIdx, rowCount, saveChunkSize, saveChunkDelayMs, modifiedSinceSave,
          rowResult, timedOutSaves, modifiedCount, midSaves, retrySaves, finalSaves,
          allSavesOk, uncovered, batchCells, timedOutCells, lastOutcome,
          retryOutcome, triggerCalls, backedOff, delayOwed

saveVars == <<mpc, rowIdx, rowCount, saveChunkSize, saveChunkDelayMs, modifiedSinceSave,
              rowResult, timedOutSaves, modifiedCount, midSaves, retrySaves, finalSaves,
              allSavesOk, uncovered, batchCells, timedOutCells, lastOutcome,
              retryOutcome, triggerCalls, backedOff, delayOwed>>

\* main's read of one record's cells (src/index.js, the loop around
\* sheet.loadCells): lpc is the position inside the loop, loadAttempt the local
\* attempt, readDelayMs and readBackoffMs the settings.  loadCalls counts the
\* calls of loadCells, lastLoadError is how the last call ended, lastBackoff
\* the wait made after the last failed call (-1 when none was made).
VARIABLES lpc, loadAttempt, readDelayMs, readBackoffMs, loadCalls, lastLoadError,
          lastBackoff

loadVars == <<lpc, loadAttempt, readDelayMs, readBackoffMs, loadCalls, lastLoadError,
              lastBackoff>>

\* the verification of the timed-out saves after the loop: verifyIdx is the
\* number of entries of timedOutSaves handled so far, unconfirmed whether an
\* entry was logged as not confirmed
VARIABLES verifyIdx, unconfirmed

verifyVars == <<verifyIdx, unconfirmed>>

\* main's session memory (lastScrapedValue, lastPsaDetails), the index of the
\* record the loop is at, the memory the engine returned for the record
\* processed last, and the numbers of calls of processRow made and returned
VARIABLES lastScrapedValue, lastPsaDetails, recordNo, returnedMemory,
          engineCalls, engineReturns

sessionVars == <<lastScrapedValue, lastPsaDetails, recordNo, returnedMemory,
                 engineCalls, engineReturns>>

\* main's start: the position in the setup, the environment, the headers of
\* the sheet, the exit code, and what the run has done to the sheet's records
VARIABLES cpc, env, headers, exitCode, rowsFetched, recordsProcessed, commitsIssued

configVars == <<cpc, env, headers, exitCode, rowsFetched, recordsProcessed, commitsIssued>>

\* PsaService: the position in getDetails / scrapeDetails, the service's API
\* key and browser, which scrapeDetails is built in, the calls made, the page
\* of the scraper, its load attempts, and how the call ended
VARIABLES ppc, serviceApiKey, browser, scraper, fetches, fetchOutcome, scrapeCalls,
          pagesOpened, pagesClosed, scrapeAttempt, contentLoaded, pending,
          scrapeResult, detailsResult

psaVars == <<ppc, serviceApiKey, browser, scraper, fetches, fetchOutcome, scrapeCalls,
             pagesOpened, pagesClosed, scrapeAttempt, contentLoaded, pending,
             scrapeResult, detailsResult>>

\* the CSV store: the cells of a row, the line written for them, and the cells
\* read back from that line
VARIABLES csvStage, cells, line, parsed

csvVars == <<csvStage, cells, line, parsed>>

laterVars == <<sessionVars, configVars, psaVars, csvVars>>

vars == <<samplerVars, rowVars, saveVars, loadVars, verifyVars, laterVars>>

\* inputs of the sampler
CertNumbers == {Null, Str(<<"1", "2", "3">>)}

PreviousValues == {Null, Num(1000), Num(1200)}

\* text of the estimate element; Null when the element is absent
QuoteTexts ==
    {Null, Str(<<>>), Str(<<"N", "/", "A">>), Str(<<"$", "0">>),
     Str(<<"$", "1", "0", "0">>), Str(<<"$", "1", "2", "0">>),
     Str(<<"$", "5", "0", ".", "2">>)}

\* text of one of the three price elements; Null when the element is absent
PriceTexts == {Null, Str(<<"-">>), Str(<<"$", "9", "0">>), Str(<<"$", "1", "5", "0", ".", "5">>)}

ConfidenceLevels == 0 .. 5

ApiKeys == {Null, Str(<<"k">>)}

\* a well-formed success, a bad status, a network error, a malformed payload
ApiAnswers == {"ok", "badStatus", "networkError", "malformed"}

\* the value getCLValue returns: null, or {raw, higher, confidence}
NullResult == [isNull |-> TRUE, raw |-> 0, higher |-> 0, confidence |-> 0]

MkResult(raw, higher, conf) ==
    [isNull |-> FALSE, raw |-> raw, higher |-> higher, confidence |-> conf]

\* the page.evaluate callback of the quote loop
ReadQuote(text) ==
    IF text # Null /\ Trim(text.s) # <<>>
    THEN ParseFloat(StripNonNumeric(text.s))
    ELSE Null

IsPositive(val) == val.t = "num" /\ val.n > 0

\* the page.evaluate callback of the price scrape, for one selector
PriceOf(text) ==
    IF text = Null THEN 0
    ELSE LET v == ParseFloat(StripNonNumeric(text.s))
         IN  IF Truthy(v) THEN v.n ELSE 0

\* Math.ceil(Math.max(average, cardLadderValue)), average of the three prices
\* (exact arithmetic)
HigherValue(prices, raw) ==
    LET sum == prices[1] + prices[2] + prices[3]
    IN  IF sum > 3 * raw THEN ((sum + 29) \div 30) * 10 ELSE Ceil(raw)

\* confidence scrape: 0 unless the first result link exists, nothing throws,
\* and the class name carries a level
ExtractConfidence(firstLink, innerThrows, level) ==
    IF firstLink /\ ~innerThrows THEN level ELSE 0

SamplerInit ==
    /\ pc = "call"
    /\ certNumber \in CertNumbers
    /\ previousValue \in PreviousValues
    /\ skipStaleCheck \in BOOLEAN
    /\ attempts = 0
    /\ found = FALSE
    /\ cardLadderValue = 0
    /\ higherValue = 0
    /\ result = NullResult
    /\ threw = FALSE
    /\ lastPolled = Null
    /\ sawRepeat = FALSE
    /\ polls = 0
    /\ apiKey \in ApiKeys
    /\ apiAnswer \in ApiAnswers
    /\ apiRequests = 0

Return(r) ==
    /\ pc' = "returned"
    /\ result' = r

\* entry: if (!certNumber) return null
Call ==
    /\ pc = "call"
    /\ IF ~Truthy(certNumber)
       THEN Return(NullResult)
       ELSE pc' = "search" /\ UNCHANGED result
    /\ UNCHANGED <<certNumber, previousValue, skipStaleCheck, attempts, found,
                   cardLadderValue, higherValue, threw, lastPolled, sawRepeat, polls>>

\* click the search icon, type the cert, submit
SubmitQuery(searchIcon, input, submitBtn) ==
    /\ pc = "search"
    /\ IF searchIcon /\ input /\ submitBtn
       THEN pc' = "waitResults" /\ attempts' = 0 /\ found' = FALSE /\ UNCHANGED result
       ELSE Return(NullResult) /\ UNCHANGED <<attempts, found>>
    /\ UNCHANGED <<certNumber, previousValue, skipStaleCheck,
                   cardLadderValue, higherValue, threw, lastPolled, sawRepeat, polls>>

\* one iteration of the wait-for-results loop
WaitResults(container, childCount) ==
    /\ pc = "waitResults"
    /\ attempts < ResultsWaitAttempts
    /\ IF container /\ childCount >= 3
       THEN /\ found' = TRUE
            /\ attempts' = 0
            /\ pc' = "pollQuote"
            /\ UNCHANGED result
       ELSE /\ found' = FALSE
            /\ attempts' = attempts + 1
            /\ IF attempts + 1 < ResultsWaitAttempts
               THEN pc' = "waitResults" /\ UNCHANGED result
               ELSE Return(NullResult)
    /\ UNCHANGED <<certNumber, previousValue, skipStaleCheck,
                   cardLadderValue, higherValue, threw, lastPolled, sawRepeat, polls>>

\* PollQuote without the stale check: a reading equal to the previous value is
\* accepted at once
PollQuoteNoStaleWait(text) ==
    /\ pc = "pollQuote"
    /\ attempts < MAX_RETRIES
    /\ LET val == ReadQuote(text)
           stale == previousValue # Null /\ val = previousValue
       IN  /\ lastPolled' = val
           /\ polls' = polls + 1
           /\ cardLadderValue' = IF IsPositive(val) THEN val.n ELSE cardLadderValue
           /\ sawRepeat' = (sawRepeat \/ (IsPositive(val) /\ stale))
           /\ IF IsPositive(val)
              THEN pc' = "prices" /\ UNCHANGED attempts
              ELSE /\ attempts' = attempts + 1
                   /\ pc' = IF attempts + 1 < MAX_RETRIES THEN "pollQuote" ELSE "prices"
    /\ UNCHANGED <<certNumber, previousValue, skipStaleCheck, found,
                   higherValue, result, threw>>

\* PollQuote that ignores skipStaleCheck: a repeated value always waits
PollQuoteAlwaysWait(text) ==
    /\ pc = "pollQuote"
    /\ attempts < MAX_RETRIES
    /\ LET val == ReadQuote(text)
           stale == previousValue # Null /\ val = previousValue
           break == IsPositive(val) /\ ~stale
       IN  /\ lastPolled' = val
           /\ polls' = polls + 1
           /\ cardLadderValue' = IF IsPositive(val) THEN val.n ELSE cardLadderValue
           /\ sawRepeat' = (sawRepeat \/ (IsPositive(val) /\ stale))
           /\ IF break
              THEN pc' = "prices" /\ UNCHANGED attempts
              ELSE /\ attempts' = attempts + 1
                   /\ pc' = IF attempts + 1 < MAX_RETRIES THEN "pollQuote" ELSE "prices"
    /\ UNCHANGED <<certNumber, previousValue, skipStaleCheck, found,
                   higherValue, result, threw>>

\* PollQuote that stores the reading only once it is confirmed (the assignment
\* moved into the accepting branches)
PollQuoteAssignOnConfirm(text) ==
    /\ pc = "pollQuote"
    /\ attempts < MAX_RETRIES
    /\ LET val == ReadQuote(text)
           stale == previousValue # Null /\ val = previousValue
           break == IsPositive(val) /\ (~stale \/ skipStaleCheck)
       IN  /\ lastPolled' = val
           /\ polls' = polls + 1
           /\ cardLadderValue' = IF break THEN val.n ELSE cardLadderValue
           /\ sawRepeat' = (sawRepeat \/ (IsPositive(val) /\ stale))
           /\ IF break
              THEN pc' = "prices" /\ UNCHANGED attempts
              ELSE /\ attempts' = attempts + 1
                   /\ pc' = IF attempts + 1 < MAX_RETRIES THEN "pollQuote" ELSE "prices"
    /\ UNCHANGED <<certNumber, previousValue, skipStaleCheck, found,
                   higherValue, result, threw>>

\* PollQuote that accepts the previous value the second time it is read
PollQuoteAcceptsSecondRepeat(text) ==
    /\ pc = "pollQuote"
    /\ attempts < MAX_RETRIES
    /\ LET val == ReadQuote(text)
           stale == previousValue # Null /\ val = previousValue
           break == IsPositive(val) /\ (~stale \/ skipStaleCheck \/ sawRepeat)
       IN  /\ lastPolled' = val
           /\ polls' = polls + 1
           /\ cardLadderValue' = IF IsPositive(val) THEN val.n ELSE cardLadderValue
           /\ sawRepeat' = (sawRepeat \/ (IsPositive(val) /\ stale))
           /\ IF break
              THEN pc' = "prices" /\ UNCHANGED attempts
              ELSE /\ attempts' = attempts + 1
                   /\ pc' = IF attempts + 1 < MAX_RETRIES THEN "pollQuote" ELSE "prices"
    /\ UNCHANGED <<certNumber, previousValue, skipStaleCheck, found,
                   higherValue, result, threw>>

\* one iteration of the quote loop
PollQuote(text) ==
    /\ pc = "pollQuote"
    /\ attempts < MAX_RETRIES
    /\ LET val == ReadQuote(text)
           stale == previousValue # Null /\ val = previousValue
           break == IsPositive(val) /\ (~stale \/ skipStaleCheck)
       IN  /\ lastPolled' = val
           /\ polls' = polls + 1
           /\ cardLadderValue' = IF IsPositive(val) THEN val.n ELSE cardLadderValue
           /\ sawRepeat' = (sawRepeat \/ (IsPositive(val) /\ stale))
           /\ IF break
              THEN pc' = "prices" /\ UNCHANGED attempts
              ELSE /\ attempts' = attempts + 1
                   /\ pc' = IF attempts + 1 < MAX_RETRIES THEN "pollQuote" ELSE "prices"
    /\ UNCHANGED <<certNumber, previousValue, skipStaleCheck, found,
                   higherValue, result, threw>>

\* the price scrape and the higher value
ScrapePrices(p1, p2, p3) ==
    /\ pc = "prices"
    /\ higherValue' = HigherValue(<<PriceOf(p1), PriceOf(p2), PriceOf(p3)>>, cardLadderValue)
    /\ pc' = "confidence"
    /\ UNCHANGED <<certNumber, previousValue, skipStaleCheck, attempts, found,
                   cardLadderValue, result, threw, lastPolled, sawRepeat, polls>>

\* the best-effort confidence scrape and the return of the result object
ScrapeConfidence(firstLink, innerThrows, level) ==
    /\ pc = "confidence"
    /\ Return(MkResult(cardLadderValue, higherValue,
                       ExtractConfidence(firstLink, innerThrows, level)))
    /\ UNCHANGED <<certNumber, previousValue, skipStaleCheck, attempts, found,
                   cardLadderValue, higherValue, threw, lastPolled, sawRepeat, polls>>

\* PageThrows without the outer catch: the exception leaves getCLValue
PageThrowsEscapes ==
    /\ pc \in {"search", "waitResults", "pollQuote", "prices"}
    /\ threw' = TRUE
    /\ pc' = "thrown"
    /\ UNCHANGED <<certNumber, previousValue, skipStaleCheck, attempts, found,
                   cardLadderValue, higherValue, result, lastPolled, sawRepeat, polls>>

\* a page operation inside the outer try throws: catch, return null
PageThrows ==
    /\ pc \in {"search", "waitResults", "pollQuote", "prices"}
    /\ threw' = TRUE
    /\ Return(NullResult)
    /\ UNCHANGED <<certNumber, previousValue, skipStaleCheck, attempts, found,
                   cardLadderValue, higherValue, lastPolled, sawRepeat, polls>>

\* no step of getCLValue reads apiKey or sends a request to the API
SamplerNext ==
    /\ \/ Call
       \/ \E a, b, c \in BOOLEAN : SubmitQuery(a, b, c)
       \/ \E container \in BOOLEAN, childCount \in {0, 3} : WaitResults(container, childCount)
       \/ \E text \in QuoteTexts : PollQuote(text)
       \/ \E p1, p2, p3 \in PriceTexts : ScrapePrices(p1, p2, p3)
       \/ \E firstLink, innerThrows \in BOOLEAN, level \in ConfidenceLevels :
              ScrapeConfidence(firstLink, innerThrows, level)
       \/ PageThrows
    /\ UNCHANGED apiVars

(***************************************************************************)
(* processRow (src/lib/rowprocessor.js) as a function of the record, the   *)
(* collaborators' answers and the options.                                 *)
(***************************************************************************)
NoPrevRow == [prevName |-> Null, prevNumber |-> Null, prevGrade |-> Null]

\* psaService.getDetails answers null or {name, number, grade}
NoDetails == [isNull |-> TRUE, name |-> Null, number |-> Null, grade |-> Null]

Details(name, number, grade) ==
    [isNull |-> FALSE, name |-> name, number |-> number, grade |-> grade]

NoMismatch == [isNull |-> TRUE, row |-> 0, cert |-> Null, sheetVal |-> Null, scrapedVal |-> Null]

\* !v || String(v).trim() === ''
IsBlank(v) == ~Truthy(v) \/ Trim(JsString(v)) = <<>>

\* isMatch without the trim of its two arguments
isMatchNoTrim(str1, str2) ==
    JsString(IF Truthy(str1) THEN str1 ELSE Str(<<>>))
      = JsString(IF Truthy(str2) THEN str2 ELSE Str(<<>>))

\* isMatch of utility.js
isMatch(str1, str2) ==
    Trim(JsString(IF Truthy(str1) THEN str1 ELSE Str(<<>>)))
      = Trim(JsString(IF Truthy(str2) THEN str2 ELSE Str(<<>>)))

\* cleanCurrentVal of index.js
cleanCurrentVal(val) == IF IsBlank(val) THEN Str(<<>>) ELSE val

\* the instructions object as created at the top of processRow; the code
\* never sets writeErrorColor, writePsaErrorColor and writeConfidence, which
\* the caller reads (undefined: falsy, and no confidence to write)
InitialInstructions(opts) ==
    [writeName |-> Null, writeNumber |-> Null, writeGrade |-> Null,
     writeValue |-> Null, rowModified |-> FALSE, mismatch |-> NoMismatch,
     writeErrorColor |-> FALSE, writePsaErrorColor |-> FALSE,
     writeConfidence |-> Null,
     updatedLastScrapedValue |-> opts.lastScrapedValue,
     updatedLastPsaDetails |-> opts.lastPsaDetails]

\* step 1: the missing metadata fields and the PSA fetch
NeedsPsa(row) ==
    IsBlank(row.currentName) \/ IsBlank(row.currentNumber) \/ IsBlank(row.currentGrade)

\* PsaCalled without the test of the write mode
PsaCalledAnyMode(row, opts) == NeedsPsa(row)

PsaCalled(row, opts) == NeedsPsa(row) /\ opts.WRITE_MODE \in {"BOTH", "PSA"}

\* PsaStep that takes every fetched field, missing on the record or not
PsaStepOverwritesAll(instr, row, psa, opts) ==
    LET got == PsaCalled(row, opts) /\ ~psa.isNull
        active == Details(IF got THEN psa.name ELSE row.currentName,
                          IF got THEN psa.number ELSE row.currentNumber,
                          IF got THEN psa.grade ELSE row.currentGrade)
    IN  [instr EXCEPT !.writeName = IF got THEN psa.name ELSE @,
                      !.writeNumber = IF got THEN psa.number ELSE @,
                      !.writeGrade = IF got THEN psa.grade ELSE @,
                      !.rowModified = @ \/ got,
                      !.updatedLastPsaDetails = active]

\* PsaStep that refreshes the remembered details only after a successful fetch
PsaStepCarriesMemory(instr, row, psa, opts) ==
    LET got == PsaCalled(row, opts) /\ ~psa.isNull
        fillName == got /\ IsBlank(row.currentName)
        fillNumber == got /\ IsBlank(row.currentNumber)
        fillGrade == got /\ IsBlank(row.currentGrade)
        active == Details(IF fillName THEN psa.name ELSE row.currentName,
                          IF fillNumber THEN psa.number ELSE row.currentNumber,
                          IF fillGrade THEN psa.grade ELSE row.currentGrade)
    IN  [instr EXCEPT !.writeName = IF fillName THEN psa.name ELSE @,
                      !.writeNumber = IF fillNumber THEN psa.number ELSE @,
                      !.writeGrade = IF fillGrade THEN psa.grade ELSE @,
                      !.rowModified = @ \/ fillName \/ fillNumber \/ fillGrade,
                      !.updatedLastPsaDetails = IF got THEN active ELSE @]

PsaStep(instr, row, psa, opts) ==
    LET got == PsaCalled(row, opts) /\ ~psa.isNull
        fillName == got /\ IsBlank(row.currentName)
        fillNumber == got /\ IsBlank(row.currentNumber)
        fillGrade == got /\ IsBlank(row.currentGrade)
        active == Details(IF fillName THEN psa.name ELSE row.currentName,
                          IF fillNumber THEN psa.number ELSE row.currentNumber,
                          IF fillGrade THEN psa.grade ELSE row.currentGrade)
    IN  [instr EXCEPT !.writeName = IF fillName THEN psa.name ELSE @,
                      !.writeNumber = IF fillNumber THEN psa.number ELSE @,
                      !.writeGrade = IF fillGrade THEN psa.grade ELSE @,
                      !.rowModified = @ \/ fillName \/ fillNumber \/ fillGrade,
                      !.updatedLastPsaDetails = active]

\* IsSameCard without the fallback to the previous row of the sheet
IsSameCardMemoryOnly(active, row, opts) ==
    LET last == opts.lastPsaDetails
    IN  /\ ~last.isNull
        /\ isMatch(active.name, last.name)
        /\ isMatch(active.number, last.number)
        /\ isMatch(active.grade, last.grade)

\* step 2: is this the same card as the previous one
IsSameCard(active, row, opts) ==
    LET last == opts.lastPsaDetails
        prev == row.prevRowData
        byMemory == /\ ~last.isNull
                    /\ isMatch(active.name, last.name)
                    /\ isMatch(active.number, last.number)
                    /\ isMatch(active.grade, last.grade)
        byPrevRow == /\ Truthy(prev.prevName)
                     /\ isMatch(active.name, prev.prevName)
                     /\ isMatch(active.number, prev.prevNumber)
                     /\ isMatch(active.grade, prev.prevGrade)
    IN  byMemory \/ byPrevRow

\* step 3: is getCLValue called
HasCurrentVal(row) == ~IsBlank(row.currentVal)

\* ClCalled that skips on the flag alone, whatever the record holds
ClCalledSkipsOnFlag(row, opts) ==
    /\ opts.WRITE_MODE \in {"BOTH", "CL"}
    /\ ~opts.SKIP_CL_CHECK

ClCalled(row, opts) ==
    /\ opts.WRITE_MODE \in {"BOTH", "CL"}
    /\ ~(opts.SKIP_CL_CHECK /\ HasCurrentVal(row))

\* NewValToWrite without the Math.ceil of the RAW choice
NewValToWriteNoCeil(res, opts) ==
    IF opts.CL_VALUE_CHOICE = "HIGHER" THEN res.higher ELSE res.raw

NewValToWrite(res, opts) ==
    IF opts.CL_VALUE_CHOICE = "HIGHER" THEN res.higher ELSE Ceil(res.raw)

\* CleanCurrent without the removal of the non-numeric characters
CleanCurrentNoStrip(row) == ParseFloat(JsString(row.currentVal))

CleanCurrent(row) == ParseFloat(StripNonNumeric(JsString(row.currentVal)))

\* cleanCurrent !== newValToWrite (NaN differs from every number)
Differs(clean, newVal) == clean.t # "num" \/ clean.n # newVal

\* ClStep that treats a null result as a value to write, whatever the record holds
ClStepFailureOverwrites(instr, row, res, opts) ==
    IF ~ClCalled(row, opts) THEN instr
    ELSE IF res.isNull
    THEN [instr EXCEPT !.writeValue = Str(<<"N", "o", " ", "c", "o", "m", "p", "s">>),
                       !.rowModified = TRUE]
    ELSE LET newVal == NewValToWrite(res, opts)
             clean == CleanCurrent(row)
         IN  IF ~HasCurrentVal(row)
             THEN [instr EXCEPT !.updatedLastScrapedValue = Num(res.raw),
                                !.writeValue = Num(newVal),
                                !.rowModified = TRUE]
             ELSE [instr EXCEPT !.updatedLastScrapedValue = Num(res.raw),
                                !.mismatch =
                                    IF Differs(clean, newVal)
                                    THEN [isNull |-> FALSE, row |-> opts.rowNumber,
                                          cert |-> row.cert, sheetVal |-> clean,
                                          scrapedVal |-> Num(newVal)]
                                    ELSE @]

\* ClStep that remembers the raw value only when it writes the value
ClStepMemoryOnWrite(instr, row, res, opts) ==
    IF ~ClCalled(row, opts) \/ res.isNull THEN instr
    ELSE LET newVal == NewValToWrite(res, opts)
             clean == CleanCurrent(row)
         IN  IF ~HasCurrentVal(row)
             THEN [instr EXCEPT !.updatedLastScrapedValue = Num(res.raw),
                                !.writeValue = Num(newVal),
                                !.rowModified = TRUE]
             ELSE [instr EXCEPT !.mismatch =
                                    IF Differs(clean, newVal)
                                    THEN [isNull |-> FALSE, row |-> opts.rowNumber,
                                          cert |-> row.cert, sheetVal |-> clean,
                                          scrapedVal |-> Num(newVal)]
                                    ELSE @]

\* ClStep that overwrites a differing existing value instead of reporting it
ClStepOverwrite(instr, row, res, opts) ==
    IF ~ClCalled(row, opts) \/ res.isNull THEN instr
    ELSE LET newVal == NewValToWrite(res, opts)
             clean == CleanCurrent(row)
         IN  IF ~HasCurrentVal(row) \/ Differs(clean, newVal)
             THEN [instr EXCEPT !.updatedLastScrapedValue = Num(res.raw),
                                !.writeValue = Num(newVal),
                                !.rowModified = TRUE]
             ELSE [instr EXCEPT !.updatedLastScrapedValue = Num(res.raw)]

ClStep(instr, row, res, opts) ==
    IF ~ClCalled(row, opts) \/ res.isNull THEN instr
    ELSE LET newVal == NewValToWrite(res, opts)
             clean == CleanCurrent(row)
         IN  IF ~HasCurrentVal(row)
             THEN [instr EXCEPT !.updatedLastScrapedValue = Num(res.raw),
                                !.writeValue = Num(newVal),
                                !.rowModified = TRUE]
             ELSE [instr EXCEPT !.updatedLastScrapedValue = Num(res.raw),
                                !.mismatch =
                                    IF Differs(clean, newVal)
                                    THEN [isNull |-> FALSE, row |-> opts.rowNumber,
                                          cert |-> row.cert, sheetVal |-> clean,
                                          scrapedVal |-> Num(newVal)]
                                    ELSE @]

processRow(row, psa, res, opts) ==
    ClStep(PsaStep(InitialInstructions(opts), row, psa, opts), row, res, opts)

\* which collaborators processRow called, and the skip flag handed to getCLValue
CallsOf(row, psa, opts) ==
    [psa |-> PsaCalled(row, opts),
     cl |-> ClCalled(row, opts),
     isSameCard |->
        IsSameCard(PsaStep(InitialInstructions(opts), row, psa, opts).updatedLastPsaDetails,
                   row, opts)]

\* ApplyToRecord without the write of the value cell
ApplyToRecordDropsValue(row, instr) ==
    [row EXCEPT !.currentName = IF Truthy(instr.writeName) THEN instr.writeName ELSE @,
                !.currentNumber = IF Truthy(instr.writeNumber) THEN instr.writeNumber ELSE @,
                !.currentGrade = IF Truthy(instr.writeGrade) THEN instr.writeGrade ELSE @,
                !.currentVal = cleanCurrentVal(@)]

\* the caller applying the writes to the record's cells (index.js, "Apply
\* Writes") and re-reading the record
ApplyToRecord(row, instr) ==
    [row EXCEPT !.currentName = IF Truthy(instr.writeName) THEN instr.writeName ELSE @,
                !.currentNumber = IF Truthy(instr.writeNumber) THEN instr.writeNumber ELSE @,
                !.currentGrade = IF Truthy(instr.writeGrade) THEN instr.writeGrade ELSE @,
                !.currentVal = cleanCurrentVal(IF Truthy(instr.writeValue)
                                               THEN instr.writeValue ELSE @)]

\* the caller's "Update State"
UpdateMemory(opts, instr) ==
    [opts EXCEPT !.lastScrapedValue = instr.updatedLastScrapedValue,
                 !.lastPsaDetails = instr.updatedLastPsaDetails]

(***************************************************************************)
(* Inputs of the engine.  The value of a record is what the callers hand   *)
(* over: index.js passes cleanCurrentVal(cell), '' or a non-blank string   *)
(* or number; process_csv passes the text of the CSV cell, or null.        *)
(***************************************************************************)
CurrentVals ==
    {Null, Str(<<>>), Str(<<" ">>), Str(<<"$", "1", "2", "0">>),
     Str(<<"n", "/", "a">>), Num(510)}

CurrentNames == {Null, Str(<<"A">>)}

CurrentNumbers == {Str(<<" ">>), Str(<<"4">>)}

CurrentGrades == {Str(<<"1", "0">>)}

\* the previous row of the sheet as read by rows[i - 1].get: absent, a row with
\* all three fields, a row without a name
PrevRows ==
    {NoPrevRow,
     [prevName |-> Str(<<"A">>), prevNumber |-> Str(<<"4">>), prevGrade |-> Num(100)],
     [prevName |-> Null, prevNumber |-> Str(<<"4">>), prevGrade |-> Str(<<"1", "0">>)]}

RowDatas ==
    [cert : {Str(<<"1", "2", "3">>)}, currentVal : CurrentVals,
     currentName : CurrentNames, currentNumber : CurrentNumbers,
     currentGrade : CurrentGrades, prevRowData : PrevRows]

PsaDatas ==
    {NoDetails,
     Details(Str(<<"A">>), Str(<<"4">>), Num(100)),
     Details(Str(<<"B">>), Str(<<>>), Num(90))}

\* the three scraped prices
PriceTriples == {<<0, 0, 0>>, <<900, 900, 1505>>}

Raws == {0, 502, 1200}

\* what getCLValue can return after scraping the given prices
ClResults(prices) ==
    {MkResult(raw, HigherValue(prices, raw), conf) : raw \in Raws, conf \in {0, 3}}

WriteModes == {"BOTH", "PSA", "CL", "CONFIDENCE"}

\* the caller's memory when it reaches a record: both parts null before the
\* first record; afterwards lastPsaDetails is the previous record's working
\* details and lastScrapedValue is null until an acquisition has succeeded
Memories ==
    {[lastScrapedValue |-> Null, lastPsaDetails |-> NoDetails],
     [lastScrapedValue |-> Num(1000),
      lastPsaDetails |-> Details(Str(<<"A", " ">>), Str(<<" ", "4">>), Num(100))],
     [lastScrapedValue |-> Null,
      lastPsaDetails |-> Details(Str(<<"a">>), Str(<<"4">>), Str(<<"1", "0">>))],
     [lastScrapedValue |-> Num(502),
      lastPsaDetails |-> Details(Str(<<"A">>), Str(<<"5">>), Str(<<"1", "0">>))]}

\* processRow reads neither of the two force flags main hands it; they are
\* drawn together
OptionSets ==
    {[WRITE_MODE |-> mode, CL_VALUE_CHOICE |-> choice,
      SKIP_CL_CHECK |-> skip, FORCE_CL_OVERWRITE |-> force,
      FORCE_GRADE_OVERWRITE |-> force,
      lastScrapedValue |-> mem.lastScrapedValue,
      lastPsaDetails |-> mem.lastPsaDetails, rowNumber |-> 2] :
        mode \in WriteModes, choice \in {"RAW", "HIGHER"},
        skip \in BOOLEAN, force \in BOOLEAN, mem \in Memories}

(***************************************************************************)
(* main's loop and its saves (src/index.js).  A record's result is what    *)
(* processRow returned for it; every column of the sheet is present.       *)
(***************************************************************************)
MaxRows == 5

ChunkSizes == {1, 2, 3}

ChunkDelays == {0, 1000}

SaveOutcomes == {"ok", "timeout", "error"}

NoResult ==
    [rowModified |-> FALSE, writeName |-> Null, writeNumber |-> Null,
     writeGrade |-> Null, writeValue |-> Null]

\* results of processRow: nothing to write, a value, a name and a value
SaveResults ==
    {NoResult,
     [NoResult EXCEPT !.rowModified = TRUE, !.writeValue = Num(1000)],
     [NoResult EXCEPT !.rowModified = TRUE, !.writeName = Str(<<"A">>),
                      !.writeValue = Num(1000)]}

Cell(col, rowNumber, expected) ==
    [a1 |-> <<col, rowNumber>>, expected |-> expected]

buildExpectedCells(res, rowNumber) ==
    (IF Truthy(res.writeName)
     THEN <<Cell("name", rowNumber, res.writeName)>> ELSE <<>>)
    \o (IF Truthy(res.writeNumber)
        THEN <<Cell("number", rowNumber, res.writeNumber)>> ELSE <<>>)
    \o (IF Truthy(res.writeGrade)
        THEN <<Cell("grade", rowNumber, res.writeGrade)>> ELSE <<>>)
    \o (IF res.writeValue # Null
        THEN <<Cell("value", rowNumber, res.writeValue)>> ELSE <<>>)

\* the cells the caller assigns for a result ("Apply Writes")
WrittenCells(res, rowNumber) ==
    (IF Truthy(res.writeName) THEN {Cell("name", rowNumber, res.writeName)} ELSE {})
    \cup (IF Truthy(res.writeNumber)
          THEN {Cell("number", rowNumber, res.writeNumber)} ELSE {})
    \cup (IF Truthy(res.writeGrade)
          THEN {Cell("grade", rowNumber, res.writeGrade)} ELSE {})
    \cup (IF Truthy(res.writeValue)
          THEN {Cell("value", rowNumber, res.writeValue)} ELSE {})

SaveIdle ==
    /\ mpc = "idle"
    /\ rowIdx = 0
    /\ rowCount = 0
    /\ saveChunkSize = 1
    /\ saveChunkDelayMs = 0
    /\ modifiedSinceSave = 0
    /\ rowResult = NoResult
    /\ timedOutSaves = <<>>
    /\ modifiedCount = 0
    /\ midSaves = 0
    /\ retrySaves = 0
    /\ finalSaves = 0
    /\ allSavesOk = TRUE
    /\ uncovered = {}
    /\ batchCells = {}
    /\ timedOutCells = {}
    /\ lastOutcome = "none"
    /\ retryOutcome = "none"
    /\ triggerCalls = 0
    /\ backedOff = FALSE
    /\ delayOwed = FALSE

\* main at the head of the loop, with a range of records and a save
\* configuration that passed the checks of the settings
SaveInit ==
    /\ mpc = "row"
    /\ rowIdx = 0
    /\ rowCount \in 0 .. MaxRows
    /\ saveChunkSize \in ChunkSizes
    /\ saveChunkDelayMs \in ChunkDelays
    /\ modifiedSinceSave = 0
    /\ rowResult = NoResult
    /\ timedOutSaves = <<>>
    /\ modifiedCount = 0
    /\ midSaves = 0
    /\ retrySaves = 0
    /\ finalSaves = 0
    /\ allSavesOk = TRUE
    /\ uncovered = {}
    /\ batchCells = {}
    /\ timedOutCells = {}
    /\ lastOutcome = "none"
    /\ retryOutcome = "none"
    /\ triggerCalls = 0
    /\ backedOff = FALSE
    /\ delayOwed = FALSE

\* a record without a cert: continue
SkipRecord ==
    /\ mpc = "row"
    /\ rowIdx < rowCount
    /\ rowIdx' = rowIdx + 1
    /\ rowResult' = NoResult
    /\ lastOutcome' = "none"
    /\ retryOutcome' = "none"
    /\ triggerCalls' = 0
    /\ backedOff' = FALSE
    /\ timedOutCells' = {}
    /\ UNCHANGED <<mpc, rowCount, saveChunkSize, saveChunkDelayMs, modifiedSinceSave,
                   timedOutSaves, modifiedCount, midSaves, retrySaves, finalSaves,
                   allSavesOk, uncovered, batchCells, delayOwed>>

\* ProcessRecord saving only once the count exceeds the chunk size
ProcessRecordLateSave(res) ==
    /\ mpc = "row"
    /\ rowIdx < rowCount
    /\ rowIdx' = rowIdx + 1
    /\ lastOutcome' = "none"
    /\ retryOutcome' = "none"
    /\ triggerCalls' = 0
    /\ backedOff' = FALSE
    /\ timedOutCells' = {}
    /\ IF res.rowModified
       THEN /\ modifiedSinceSave' = modifiedSinceSave + 1
            /\ modifiedCount' = modifiedCount + 1
            /\ uncovered' = uncovered \cup {rowIdx + 2}
            /\ batchCells' = batchCells \cup WrittenCells(res, rowIdx + 2)
            /\ IF modifiedSinceSave + 1 > saveChunkSize
               THEN mpc' = "save" /\ rowResult' = res
               ELSE mpc' = "row" /\ rowResult' = NoResult
       ELSE /\ rowResult' = NoResult
            /\ UNCHANGED <<mpc, modifiedSinceSave, modifiedCount, uncovered, batchCells>>
    /\ UNCHANGED <<rowCount, saveChunkSize, saveChunkDelayMs, timedOutSaves, midSaves,
                   retrySaves, finalSaves, allSavesOk, delayOwed>>

\* one record: processRow, the writes, and the count of modified records
ProcessRecord(res) ==
    /\ mpc = "row"
    /\ rowIdx < rowCount
    /\ rowIdx' = rowIdx + 1
    /\ lastOutcome' = "none"
    /\ retryOutcome' = "none"
    /\ triggerCalls' = 0
    /\ backedOff' = FALSE
    /\ timedOutCells' = {}
    /\ IF res.rowModified
       THEN /\ modifiedSinceSave' = modifiedSinceSave + 1
            /\ modifiedCount' = modifiedCount + 1
            /\ uncovered' = uncovered \cup {rowIdx + 2}
            /\ batchCells' = batchCells \cup WrittenCells(res, rowIdx + 2)
            /\ IF modifiedSinceSave + 1 >= saveChunkSize
               THEN mpc' = "save" /\ rowResult' = res
               ELSE mpc' = "row" /\ rowResult' = NoResult
       ELSE /\ rowResult' = NoResult
            /\ UNCHANGED <<mpc, modifiedSinceSave, modifiedCount, uncovered, batchCells>>
    /\ UNCHANGED <<rowCount, saveChunkSize, saveChunkDelayMs, timedOutSaves, midSaves,
                   retrySaves, finalSaves, allSavesOk, delayOwed>>

\* the save inside the loop: sheet.saveUpdatedCells() and its catch block up
\* to the next await
SaveChunk(outcome) ==
    /\ mpc = "save"
    /\ midSaves' = midSaves + 1
    /\ triggerCalls' = triggerCalls + 1
    /\ lastOutcome' = outcome
    /\ uncovered' = {}
    /\ batchCells' = {}
    /\ allSavesOk' = (allSavesOk /\ outcome = "ok")
    /\ timedOutCells' = IF outcome = "timeout" THEN batchCells ELSE {}
    /\ CASE outcome = "ok" ->
              /\ IF saveChunkDelayMs > 0
                 THEN mpc' = "delay" /\ delayOwed' = TRUE /\ UNCHANGED modifiedSinceSave
                 ELSE mpc' = "row" /\ delayOwed' = FALSE /\ modifiedSinceSave' = 0
              /\ UNCHANGED timedOutSaves
         [] outcome = "timeout" ->
              /\ LET expectedCells == buildExpectedCells(rowResult, rowIdx + 1)
                 IN  timedOutSaves' =
                        IF Len(expectedCells) > 0
                        THEN Append(timedOutSaves, [rowNumber |-> rowIdx + 1,
                                                    expectedCells |-> expectedCells])
                        ELSE timedOutSaves
              /\ modifiedSinceSave' = 0
              /\ mpc' = "row"
              /\ UNCHANGED delayOwed
         [] outcome = "error" ->
              /\ mpc' = "backoff"
              /\ UNCHANGED <<timedOutSaves, modifiedSinceSave, delayOwed>>
    /\ UNCHANGED <<rowIdx, rowCount, saveChunkSize, saveChunkDelayMs, rowResult,
                   modifiedCount, retrySaves, finalSaves, retryOutcome, backedOff>>

\* the save delay after a successful save, then the reset of the counter
SaveChunkDelay ==
    /\ mpc = "delay"
    /\ delayOwed' = FALSE
    /\ modifiedSinceSave' = 0
    /\ mpc' = "row"
    /\ UNCHANGED <<rowIdx, rowCount, saveChunkSize, saveChunkDelayMs, rowResult,
                   timedOutSaves, modifiedCount, midSaves, retrySaves, finalSaves,
                   allSavesOk, uncovered, batchCells, timedOutCells, lastOutcome,
                   retryOutcome, triggerCalls, backedOff>>

\* the 2 s wait before the retry
RetryBackoff ==
    /\ mpc = "backoff"
    /\ backedOff' = TRUE
    /\ mpc' = "retry"
    /\ UNCHANGED <<rowIdx, rowCount, saveChunkSize, saveChunkDelayMs, modifiedSinceSave,
                   rowResult, timedOutSaves, modifiedCount, midSaves, retrySaves,
                   finalSaves, allSavesOk, uncovered, batchCells, timedOutCells,
                   lastOutcome, retryOutcome, triggerCalls, delayOwed>>

\* RetrySave that goes back to the wait when the retry fails
RetrySaveAgain(outcome) ==
    /\ mpc = "retry"
    /\ retrySaves' = retrySaves + 1
    /\ triggerCalls' = triggerCalls + 1
    /\ retryOutcome' = IF outcome = "ok" THEN "ok" ELSE "failed"
    /\ IF outcome = "ok"
       THEN modifiedSinceSave' = 0 /\ mpc' = "row"
       ELSE mpc' = "backoff" /\ UNCHANGED modifiedSinceSave
    /\ delayOwed' = (saveChunkDelayMs > 0)
    /\ UNCHANGED <<rowIdx, rowCount, saveChunkSize, saveChunkDelayMs, rowResult,
                   timedOutSaves, modifiedCount, midSaves, finalSaves, allSavesOk,
                   uncovered, batchCells, timedOutCells, lastOutcome, backedOff>>

\* RetrySave that resets the counter only when the retry succeeded
RetrySaveKeepsCount(outcome) ==
    /\ mpc = "retry"
    /\ retrySaves' = retrySaves + 1
    /\ triggerCalls' = triggerCalls + 1
    /\ retryOutcome' = IF outcome = "ok" THEN "ok" ELSE "failed"
    /\ modifiedSinceSave' = IF outcome = "ok" THEN 0 ELSE modifiedSinceSave
    /\ mpc' = "row"
    /\ delayOwed' = (saveChunkDelayMs > 0)
    /\ UNCHANGED <<rowIdx, rowCount, saveChunkSize, saveChunkDelayMs, rowResult,
                   timedOutSaves, modifiedCount, midSaves, finalSaves, allSavesOk,
                   uncovered, batchCells, timedOutCells, lastOutcome, backedOff>>

\* RetrySave that lets the error of the retry escape
RetrySaveThrows(outcome) ==
    /\ mpc = "retry"
    /\ retrySaves' = retrySaves + 1
    /\ triggerCalls' = triggerCalls + 1
    /\ retryOutcome' = IF outcome = "ok" THEN "ok" ELSE "failed"
    /\ modifiedSinceSave' = 0
    /\ mpc' = IF outcome = "ok" THEN "row" ELSE "crashed"
    /\ delayOwed' = (saveChunkDelayMs > 0)
    /\ UNCHANGED <<rowIdx, rowCount, saveChunkSize, saveChunkDelayMs, rowResult,
                   timedOutSaves, modifiedCount, midSaves, finalSaves, allSavesOk,
                   uncovered, batchCells, timedOutCells, lastOutcome, backedOff>>

\* the retry: sheet.saveUpdatedCells() once more, its failure logged, then the
\* reset of the counter
RetrySave(outcome) ==
    /\ mpc = "retry"
    /\ retrySaves' = retrySaves + 1
    /\ triggerCalls' = triggerCalls + 1
    /\ retryOutcome' = IF outcome = "ok" THEN "ok" ELSE "failed"
    /\ modifiedSinceSave' = 0
    /\ mpc' = "row"
    /\ delayOwed' = (saveChunkDelayMs > 0)
    /\ UNCHANGED <<rowIdx, rowCount, saveChunkSize, saveChunkDelayMs, rowResult,
                   timedOutSaves, modifiedCount, midSaves, finalSaves, allSavesOk,
                   uncovered, batchCells, timedOutCells, lastOutcome, backedOff>>

\* EndLoop without the save after the loop
EndLoopNoFlush ==
    /\ mpc = "row"
    /\ rowIdx = rowCount
    /\ mpc' = "verify"
    /\ UNCHANGED <<rowIdx, rowCount, saveChunkSize, saveChunkDelayMs, modifiedSinceSave,
                   rowResult, timedOutSaves, modifiedCount, midSaves, retrySaves,
                   finalSaves, allSavesOk, uncovered, batchCells, timedOutCells,
                   lastOutcome, retryOutcome, triggerCalls, backedOff, delayOwed>>

\* the end of the loop: if (modifiedSinceSave > 0)
EndLoop ==
    /\ mpc = "row"
    /\ rowIdx = rowCount
    /\ mpc' = IF modifiedSinceSave > 0 THEN "finalSave" ELSE "verify"
    /\ UNCHANGED <<rowIdx, rowCount, saveChunkSize, saveChunkDelayMs, modifiedSinceSave,
                   rowResult, timedOutSaves, modifiedCount, midSaves, retrySaves,
                   finalSaves, allSavesOk, uncovered, batchCells, timedOutCells,
                   lastOutcome, retryOutcome, triggerCalls, backedOff, delayOwed>>

\* the save after the loop; a failure is logged
FinalSave(outcome) ==
    /\ mpc = "finalSave"
    /\ finalSaves' = finalSaves + 1
    /\ allSavesOk' = (allSavesOk /\ outcome = "ok")
    /\ uncovered' = {}
    /\ batchCells' = {}
    /\ mpc' = "verify"
    /\ UNCHANGED <<rowIdx, rowCount, saveChunkSize, saveChunkDelayMs, modifiedSinceSave,
                   rowResult, timedOutSaves, modifiedCount, midSaves, retrySaves,
                   timedOutCells, lastOutcome, retryOutcome, triggerCalls, backedOff,
                   delayOwed>>

VerifyIdle == verifyIdx = 0 /\ unconfirmed = FALSE

\* Number(v)
ToNumber(v) ==
    CASE v.t = "null" -> Num(0)
      [] v.t = "nan" -> NaN
      [] v.t = "num" -> v
      [] v.t = "str" ->
            LET t == Trim(v.s)
            IN  IF t = <<>> THEN Num(0)
                ELSE IF StripNonNumeric(t) = t THEN ParseFloat(t) ELSE NaN

\* the comparison of a re-read cell with the expected value: numbers
\* numerically, everything else as trimmed strings (actual ?? '')
CellMatches(expected, actual) ==
    IF expected.t = "num" THEN ToNumber(actual) = expected
    ELSE Trim(IF actual = Null THEN <<>> ELSE JsString(actual)) = Trim(JsString(expected))

\* one entry of timedOutSaves: its cells are re-read (they hold the expected
\* values when stored is true, nothing otherwise) and compared; a mismatch is
\* logged
VerifyTimedOutSaves(stored) ==
    /\ mpc = "verify"
    /\ verifyIdx < Len(timedOutSaves)
    /\ LET entry == timedOutSaves[verifyIdx + 1]
           actual(k) == IF stored THEN entry.expectedCells[k].expected ELSE Null
           mismatched == {k \in 1 .. Len(entry.expectedCells) :
                            ~CellMatches(entry.expectedCells[k].expected, actual(k))}
       IN  unconfirmed' = (unconfirmed \/ mismatched # {})
    /\ verifyIdx' = verifyIdx + 1
    /\ UNCHANGED saveVars

\* the summary, browser.close() and process.exit(0)
Summary ==
    /\ mpc = "verify"
    /\ verifyIdx = Len(timedOutSaves)
    /\ mpc' = "done"
    /\ UNCHANGED <<rowIdx, rowCount, saveChunkSize, saveChunkDelayMs, modifiedSinceSave,
                   rowResult, timedOutSaves, modifiedCount, midSaves, retrySaves,
                   finalSaves, allSavesOk, uncovered, batchCells, timedOutCells,
                   lastOutcome, retryOutcome, triggerCalls, backedOff, delayOwed>>
    /\ UNCHANGED verifyVars

SaveStep ==
    \/ /\ \/ SkipRecord
          \/ \E res \in SaveResults : ProcessRecord(res)
          \/ \E outcome \in SaveOutcomes : SaveChunk(outcome)
          \/ SaveChunkDelay
          \/ RetryBackoff
          \/ \E outcome \in SaveOutcomes : RetrySave(outcome)
          \/ EndLoop
          \/ \E outcome \in SaveOutcomes : FinalSave(outcome)
       /\ UNCHANGED verifyVars
    \/ \E stored \in BOOLEAN : VerifyTimedOutSaves(stored)
    \/ Summary

(***************************************************************************)
(* main's read of the cells of one record (src/index.js).                  *)
(***************************************************************************)
MaxLoadAttempts == 5

GenericBackoffMs == 2000

ReadDelays == {0, 200}

ReadBackoffs == {0, 5000}

\* how sheet.loadCells ends: resolved, or rejected with a message that matches
\* /timed out|timeout/i, /quota exceeded|429/i, both, or neither
LoadOutcomes == {"ok", "timeout", "quota", "timeoutAndQuota", "other"}

IsTimeoutError(outcome) == outcome \in {"timeout", "timeoutAndQuota"}

IsQuotaError(outcome) == outcome \in {"quota", "timeoutAndQuota"}

LoadIdle ==
    /\ lpc = "idle"
    /\ loadAttempt = 0
    /\ readDelayMs = 0
    /\ readBackoffMs = 0
    /\ loadCalls = 0
    /\ lastLoadError = "none"
    /\ lastBackoff = -1

\* main at "let attempt = 0", with settings that passed the checks
LoadInit ==
    /\ lpc = "try"
    /\ loadAttempt = 0
    /\ readDelayMs \in ReadDelays
    /\ readBackoffMs \in ReadBackoffs
    /\ loadCalls = 0
    /\ lastLoadError = "none"
    /\ lastBackoff = -1

\* the head of the try block: the read delay, when one is configured
ReadDelay ==
    /\ lpc = "try"
    /\ loadAttempt < MaxLoadAttempts
    /\ lpc' = "load"
    /\ UNCHANGED <<loadAttempt, readDelayMs, readBackoffMs, loadCalls, lastLoadError,
                   lastBackoff>>

\* LoadCells that retries whatever the error is
LoadCellsRetriesAll(outcome) ==
    /\ lpc = "load"
    /\ loadCalls' = loadCalls + 1
    /\ lastLoadError' = IF outcome = "ok" THEN "none" ELSE outcome
    /\ IF outcome = "ok"
       THEN lpc' = "loaded" /\ UNCHANGED loadAttempt
       ELSE /\ loadAttempt' = loadAttempt + 1
            /\ lpc' = IF loadAttempt + 1 < MaxLoadAttempts
                      THEN "backoff" ELSE "thrown"
    /\ UNCHANGED <<readDelayMs, readBackoffMs, lastBackoff>>

\* sheet.loadCells(cellsToLoad) and the catch block up to its wait
LoadCells(outcome) ==
    /\ lpc = "load"
    /\ loadCalls' = loadCalls + 1
    /\ lastLoadError' = IF outcome = "ok" THEN "none" ELSE outcome
    /\ IF outcome = "ok"
       THEN lpc' = "loaded" /\ UNCHANGED loadAttempt
       ELSE /\ loadAttempt' = loadAttempt + 1
            /\ lpc' = IF (IsTimeoutError(outcome) \/ IsQuotaError(outcome))
                           /\ loadAttempt + 1 < MaxLoadAttempts
                      THEN "backoff" ELSE "thrown"
    /\ UNCHANGED <<readDelayMs, readBackoffMs, lastBackoff>>

\* the wait of the catch block, then continue
LoadBackoff ==
    /\ lpc = "backoff"
    /\ lastBackoff' = IF IsQuotaError(lastLoadError) THEN readBackoffMs
                      ELSE GenericBackoffMs
    /\ lpc' = "try"
    /\ UNCHANGED <<loadAttempt, readDelayMs, readBackoffMs, loadCalls, lastLoadError>>

LoadStep ==
    \/ ReadDelay
    \/ \E outcome \in LoadOutcomes : LoadCells(outcome)
    \/ LoadBackoff

(***************************************************************************)
(* The session memory in main's loop (src/index.js): the records are       *)
(* taken in order, each one is handed to processRow with the memory main   *)
(* holds, and main takes the memory over from the result.                  *)
(***************************************************************************)
MaxRecords == 3

EmptyMemory == [lastScrapedValue |-> Null, lastPsaDetails |-> NoDetails]

\* the records of the sheet the loop can meet, and the answers of the two
\* collaborators for them
SessionRows ==
    [cert : {Str(<<"1", "2", "3">>)}, currentVal : {Str(<<>>)},
     currentName : CurrentNames, currentNumber : {Null, Str(<<"4">>)},
     currentGrade : {Null} \cup CurrentGrades, prevRowData : {NoPrevRow}]

SessionClResults ==
    {NullResult} \cup {MkResult(raw, HigherValue(<<0, 0, 0>>, raw), 0) : raw \in {502, 1200}}

SessionOptions ==
    {o \in OptionSets : /\ o.WRITE_MODE \in {"BOTH", "CL"}
                        /\ o.CL_VALUE_CHOICE = "RAW"
                        /\ ~o.SKIP_CL_CHECK
                        /\ ~o.FORCE_CL_OVERWRITE
                        /\ o.lastScrapedValue = Null
                        /\ o.lastPsaDetails = NoDetails}

SessionIdle ==
    /\ lastScrapedValue = Null
    /\ lastPsaDetails = NoDetails
    /\ recordNo = 0
    /\ returnedMemory = EmptyMemory
    /\ engineCalls = 0
    /\ engineReturns = 0

\* a record without a cert: continue
SkipNoCert ==
    /\ stage = "top"
    /\ recordNo < MaxRecords
    /\ recordNo' = recordNo + 1
    /\ UNCHANGED <<lastScrapedValue, lastPsaDetails, returnedMemory, engineCalls,
                   engineReturns, rowVars>>

\* rowData and options are built for a record with a cert
BuildRowData(row, psa, res) ==
    /\ stage = "top"
    /\ recordNo < MaxRecords
    /\ rowData' = row
    /\ psaData' = psa
    /\ clResult' = res
    /\ options' = [options EXCEPT !.lastScrapedValue = lastScrapedValue,
                                  !.lastPsaDetails = lastPsaDetails]
    /\ stage' = "loaded"
    /\ UNCHANGED <<clPrices, instructions, firstInstructions, calls, sessionVars>>

\* await processRow(rowData, services, options): the call
InvokeEngine ==
    /\ stage = "loaded"
    /\ engineCalls' = engineCalls + 1
    /\ stage' = "running"
    /\ UNCHANGED <<rowData, psaData, clResult, clPrices, options, instructions,
                   firstInstructions, calls>>
    /\ UNCHANGED <<lastScrapedValue, lastPsaDetails, recordNo, returnedMemory,
                   engineReturns>>

\* await processRow(rowData, services, options): the result
EngineReturns ==
    /\ stage = "running"
    /\ instructions' = processRow(rowData, psaData, clResult, options)
    /\ calls' = CallsOf(rowData, psaData, options)
    /\ returnedMemory' = [lastScrapedValue |-> instructions'.updatedLastScrapedValue,
                          lastPsaDetails |-> instructions'.updatedLastPsaDetails]
    /\ engineReturns' = engineReturns + 1
    /\ stage' = "processed"
    /\ UNCHANGED <<rowData, psaData, clResult, clPrices, options, firstInstructions>>
    /\ UNCHANGED <<lastScrapedValue, lastPsaDetails, recordNo, engineCalls>>

\* UpdateState that takes the memory over only from a result that modified
\* the row
UpdateStateIfModified ==
    /\ stage = "processed"
    /\ lastScrapedValue' = IF instructions.rowModified
                              THEN instructions.updatedLastScrapedValue
                              ELSE lastScrapedValue
    /\ lastPsaDetails' = IF instructions.rowModified
                            THEN instructions.updatedLastPsaDetails
                            ELSE lastPsaDetails
    /\ recordNo' = recordNo + 1
    /\ stage' = "top"
    /\ UNCHANGED <<rowData, psaData, clResult, clPrices, options, instructions,
                   firstInstructions, calls>>
    /\ UNCHANGED <<returnedMemory, engineCalls, engineReturns>>

\* the memory is taken over from the result; the rest of the loop body does
\* not touch it
UpdateState ==
    /\ stage = "processed"
    /\ lastScrapedValue' = instructions.updatedLastScrapedValue
    /\ lastPsaDetails' = instructions.updatedLastPsaDetails
    /\ recordNo' = recordNo + 1
    /\ stage' = "top"
    /\ UNCHANGED <<rowData, psaData, clResult, clPrices, options, instructions,
                   firstInstructions, calls>>
    /\ UNCHANGED <<returnedMemory, engineCalls, engineReturns>>

SessionStep ==
    \/ SkipNoCert
    \/ \E row \in SessionRows, psa \in PsaDatas, res \in SessionClResults :
           BuildRowData(row, psa, res)
    \/ InvokeEngine
    \/ EngineReturns
    \/ UpdateState

(***************************************************************************)
(* main's setup (src/index.js): the checks of the environment and of the   *)
(* sheet's headers before the loop.  A setting is the text of its          *)
(* environment variable, Null when it is not set.                          *)
(***************************************************************************)
\* the digit prefix of a text as a natural number
DigitPrefixNat(s) == DigitsToNat(SubSeq(s, 1, DigitPrefixLen(s)))

\* Number.parseInt(text, 10) of a text without leading blanks: an optional
\* sign and the longest prefix of digits, NaN when there is no digit; the
\* result is a whole number held in the field n
ParseInt(s) ==
    LET neg == Len(s) > 0 /\ s[1] = "-"
        body == IF neg THEN Tail(s) ELSE s
    IN  IF DigitPrefixLen(body) = 0 THEN NaN
        ELSE Num(IF neg THEN 0 - DigitPrefixNat(body) ELSE DigitPrefixNat(body))

\* process.env.X || default, parsed
Setting(text, default) == ParseInt(IF Truthy(text) THEN text.s ELSE default)

\* Number.isNaN(x) || x < min
BadSetting(x, min) == x = NaN \/ x.n < min

HeaderRowTexts == {Null, Str(<<"0">>), Str(<<"x">>), Str(<<"1", "x">>)}

SaveChunkSizeTexts == {Null, Str(<<"0">>), Str(<<"x">>), Str(<<"2", "x">>)}

SaveChunkDelayTexts == {Null, Str(<<"-", "1">>), Str(<<"x">>)}

ReadDelayTexts == {Null, Str(<<"-", "1">>)}

ReadBackoffTexts == {Null, Str(<<"x">>)}

SheetHeaders == {"Certification Number", "CL Market Value", "CL Confidence Level"}

Environments ==
    [required : BOOLEAN, WRITE_MODE : {"BOTH", "PSA"},
     HEADER_ROW : HeaderRowTexts, SAVE_CHUNK_SIZE : SaveChunkSizeTexts,
     SAVE_CHUNK_DELAY_MS : SaveChunkDelayTexts, READ_DELAY_MS : ReadDelayTexts,
     READ_BACKOFF_MS : ReadBackoffTexts]

MaxConfigRecords == 2

ConfigIdle ==
    /\ cpc = "idle"
    /\ env = [required |-> TRUE, WRITE_MODE |-> "BOTH", HEADER_ROW |-> Null,
              SAVE_CHUNK_SIZE |-> Null, SAVE_CHUNK_DELAY_MS |-> Null,
              READ_DELAY_MS |-> Null, READ_BACKOFF_MS |-> Null]
    /\ headers = SheetHeaders
    /\ exitCode = 0
    /\ rowsFetched = FALSE
    /\ recordsProcessed = 0
    /\ commitsIssued = 0

ConfigInit ==
    /\ cpc = "env"
    /\ env \in Environments
    /\ headers \in SUBSET SheetHeaders
    /\ exitCode = 0
    /\ rowsFetched = FALSE
    /\ recordsProcessed = 0
    /\ commitsIssued = 0

\* process.exit(1)
Exit1 ==
    /\ cpc' = "exited"
    /\ exitCode' = 1
    /\ UNCHANGED <<env, headers, rowsFetched, recordsProcessed, commitsIssued>>

Proceed(to) ==
    /\ cpc' = to
    /\ UNCHANGED <<env, headers, exitCode, rowsFetched, recordsProcessed, commitsIssued>>

\* the service account, its key and the sheet id are set; the sheet, its tab,
\* the browser and the login follow
CheckEnvironment ==
    /\ cpc = "env"
    /\ IF ~env.required THEN Exit1 ELSE Proceed("headerRow")

\* HEADER_ROW, 1 when not set
CheckHeaderRow ==
    /\ cpc = "headerRow"
    /\ IF BadSetting(Setting(env.HEADER_ROW, <<"1">>), 1) THEN Exit1 ELSE Proceed("headers")

\* the header row is loaded and the required columns are looked up
CheckHeaders ==
    /\ cpc = "headers"
    /\ IF \/ "Certification Number" \notin headers
          \/ ("CL Market Value" \notin headers /\ env.WRITE_MODE \in {"BOTH", "CL"})
          \/ ("CL Confidence Level" \notin headers
                /\ env.WRITE_MODE \in {"BOTH", "CL", "CONFIDENCE"})
         THEN Exit1 ELSE Proceed("rows")

\* sheet.getRows()
GetRows ==
    /\ cpc = "rows"
    /\ rowsFetched' = TRUE
    /\ cpc' = "numeric"
    /\ UNCHANGED <<env, headers, exitCode, recordsProcessed, commitsIssued>>

\* the four numeric settings of the loop
CheckNumericSettings ==
    /\ cpc = "numeric"
    /\ IF \/ BadSetting(Setting(env.SAVE_CHUNK_SIZE, <<"2", "5">>), 1)
          \/ BadSetting(Setting(env.SAVE_CHUNK_DELAY_MS, <<"1", "0", "0", "0">>), 0)
          \/ BadSetting(Setting(env.READ_DELAY_MS, <<"2", "0", "0">>), 0)
          \/ BadSetting(Setting(env.READ_BACKOFF_MS, <<"5", "0", "0", "0">>), 0)
         THEN Exit1 ELSE Proceed("loop")

\* one record of the loop, with or without a save after it
ConfigProcessRecord(saves) ==
    /\ cpc = "loop"
    /\ recordsProcessed < MaxConfigRecords
    /\ recordsProcessed' = recordsProcessed + 1
    /\ commitsIssued' = commitsIssued + (IF saves THEN 1 ELSE 0)
    /\ UNCHANGED <<cpc, env, headers, exitCode, rowsFetched>>

\* the end of the range: the summary and process.exit(0)
ConfigFinish ==
    /\ cpc = "loop"
    /\ cpc' = "exited"
    /\ exitCode' = 0
    /\ UNCHANGED <<env, headers, rowsFetched, recordsProcessed, commitsIssued>>

ConfigStep ==
    \/ CheckEnvironment
    \/ CheckHeaderRow
    \/ CheckHeaders
    \/ GetRows
    \/ CheckNumericSettings
    \/ \E saves \in BOOLEAN : ConfigProcessRecord(saves)
    \/ ConfigFinish

(***************************************************************************)
(* PsaService.getDetails and scrapeDetails (psa_service.js).  The          *)
(* repository holds scrapeDetails twice: with one load of the page         *)
(* ("single") and with a loop of up to 5 loads ("retry").                  *)
(***************************************************************************)
ScrapeMaxRetries == 5

Scrapers == {"single", "retry"}

\* how the request to the PSA API ends: a payload with PSACert, a payload
\* without it, a status that is not ok, fetch or response.json() rejecting,
\* a CardGrade that is not a string (grade.match throws)
FetchOutcomes == {"ok", "noPSACert", "notOk", "throws", "jsonThrows", "gradeThrows"}

\* what the page shows when its status is read in the loop of loads
PageStatuses == {"hasDt", "noDt", "hasError", "throws"}

PsaIdle ==
    /\ ppc = "idle"
    /\ serviceApiKey = FALSE
    /\ browser = FALSE
    /\ scraper = "single"
    /\ fetches = 0
    /\ fetchOutcome = "none"
    /\ scrapeCalls = 0
    /\ pagesOpened = 0
    /\ pagesClosed = 0
    /\ scrapeAttempt = 0
    /\ contentLoaded = FALSE
    /\ pending = "none"
    /\ scrapeResult = "none"
    /\ detailsResult = "none"

PsaInit ==
    /\ ppc = "getDetails"
    /\ serviceApiKey \in BOOLEAN
    /\ browser \in BOOLEAN
    /\ scraper \in Scrapers
    /\ fetches = 0
    /\ fetchOutcome = "none"
    /\ scrapeCalls = 0
    /\ pagesOpened = 0
    /\ pagesClosed = 0
    /\ scrapeAttempt = 0
    /\ contentLoaded = FALSE
    /\ pending = "none"
    /\ scrapeResult = "none"
    /\ detailsResult = "none"

\* if (this.apiKey) ... else: no request
EnterGetDetails ==
    /\ ppc = "getDetails"
    /\ ppc' = IF serviceApiKey THEN "fetch" ELSE "fallback"
    /\ UNCHANGED <<serviceApiKey, browser, scraper, fetches, fetchOutcome, scrapeCalls,
                   pagesOpened, pagesClosed, scrapeAttempt, contentLoaded, pending,
                   scrapeResult, detailsResult>>

\* FetchDetails that gives up with null when the status is not ok
FetchDetailsNoFallback(outcome) ==
    /\ ppc = "fetch"
    /\ fetches' = fetches + 1
    /\ fetchOutcome' = outcome
    /\ IF outcome = "ok"
         THEN ppc' = "returned" /\ detailsResult' = "api"
         ELSE IF outcome = "notOk"
                THEN ppc' = "returned" /\ detailsResult' = "null"
                ELSE ppc' = "fallback" /\ detailsResult' = detailsResult
    /\ UNCHANGED <<serviceApiKey, browser, scraper, scrapeCalls, pagesOpened, pagesClosed,
                   scrapeAttempt, contentLoaded, pending, scrapeResult>>

\* the request to the API inside its try: only a payload with PSACert returns
FetchDetails(outcome) ==
    /\ ppc = "fetch"
    /\ fetches' = fetches + 1
    /\ fetchOutcome' = outcome
    /\ IF outcome = "ok"
         THEN ppc' = "returned" /\ detailsResult' = "api"
         ELSE ppc' = "fallback" /\ detailsResult' = detailsResult
    /\ UNCHANGED <<serviceApiKey, browser, scraper, scrapeCalls, pagesOpened, pagesClosed,
                   scrapeAttempt, contentLoaded, pending, scrapeResult>>

\* return await this.scrapeDetails(cert): no browser, or browser.newPage()
EnterScrapeDetails(newPageThrows) ==
    /\ ppc = "fallback"
    /\ scrapeCalls' = scrapeCalls + 1
    /\ IF ~browser \/ newPageThrows
         THEN /\ pending' = "null"
              /\ ppc' = "finally"
              /\ UNCHANGED pagesOpened
         ELSE /\ pagesOpened' = pagesOpened + 1
              /\ pending' = pending
              /\ ppc' = "goto"
    /\ UNCHANGED <<serviceApiKey, browser, scraper, fetches, fetchOutcome, pagesClosed,
                   scrapeAttempt, contentLoaded, scrapeResult, detailsResult>>

\* page.goto (in the loop: the test of the loop and attempt++ before it); the
\* Cloudflare check after it swallows its own errors
Goto(throws) ==
    /\ ppc = "goto"
    /\ IF scraper = "retry" /\ ~(scrapeAttempt < ScrapeMaxRetries /\ ~contentLoaded)
         THEN \* the loop is over
              /\ IF contentLoaded
                   THEN ppc' = "evaluate" /\ pending' = pending
                   ELSE ppc' = "finally" /\ pending' = "null"
              /\ UNCHANGED scrapeAttempt
         ELSE /\ scrapeAttempt' = scrapeAttempt + 1
              /\ IF throws
                   THEN ppc' = "finally" /\ pending' = "null"
                   ELSE ppc' = "content" /\ pending' = pending
    /\ UNCHANGED <<serviceApiKey, browser, scraper, fetches, fetchOutcome, scrapeCalls,
                   pagesOpened, pagesClosed, contentLoaded, scrapeResult, detailsResult>>

\* single: waitForSelector('dt') in its own try; retry: the status of the page
WaitContent(status) ==
    /\ ppc = "content"
    /\ IF scraper = "single"
         THEN /\ IF status = "hasDt"
                   THEN ppc' = "evaluate" /\ pending' = pending
                   ELSE ppc' = "finally" /\ pending' = "null"
              /\ contentLoaded' = (status = "hasDt")
         ELSE CASE status = "throws" ->
                     ppc' = "finally" /\ pending' = "null" /\ UNCHANGED contentLoaded
                [] status = "hasError" ->
                     ppc' = "goto" /\ UNCHANGED <<pending, contentLoaded>>
                [] status = "noDt" ->
                     /\ IF scrapeAttempt = ScrapeMaxRetries
                          THEN ppc' = "finally" /\ pending' = "null"
                          ELSE ppc' = "goto" /\ pending' = pending
                     /\ UNCHANGED contentLoaded
                [] status = "hasDt" ->
                     ppc' = "goto" /\ contentLoaded' = TRUE /\ UNCHANGED pending
    /\ UNCHANGED <<serviceApiKey, browser, scraper, fetches, fetchOutcome, scrapeCalls,
                   pagesOpened, pagesClosed, scrapeAttempt, scrapeResult, detailsResult>>

\* page.evaluate of the three fields
EvaluateDetails(throws) ==
    /\ ppc = "evaluate"
    /\ pending' = IF throws THEN "null" ELSE "data"
    /\ ppc' = "finally"
    /\ UNCHANGED <<serviceApiKey, browser, scraper, fetches, fetchOutcome, scrapeCalls,
                   pagesOpened, pagesClosed, scrapeAttempt, contentLoaded, scrapeResult,
                   detailsResult>>

\* Finally that closes the page only when the scrape has data
FinallyClosesOnSuccess ==
    /\ ppc = "finally"
    /\ pagesClosed' = IF pagesOpened > pagesClosed /\ pending = "data"
                         THEN pagesClosed + 1 ELSE pagesClosed
    /\ scrapeResult' = pending
    /\ detailsResult' = pending
    /\ ppc' = "returned"
    /\ UNCHANGED <<serviceApiKey, browser, scraper, fetches, fetchOutcome, scrapeCalls,
                   pagesOpened, scrapeAttempt, contentLoaded, pending>>

\* finally { if (page) await page.close() }, then scrapeDetails returns and
\* getDetails returns what it returned
Finally ==
    /\ ppc = "finally"
    /\ pagesClosed' = IF pagesOpened > pagesClosed THEN pagesClosed + 1 ELSE pagesClosed
    /\ scrapeResult' = pending
    /\ detailsResult' = pending
    /\ ppc' = "returned"
    /\ UNCHANGED <<serviceApiKey, browser, scraper, fetches, fetchOutcome, scrapeCalls,
                   pagesOpened, scrapeAttempt, contentLoaded, pending>>

PsaServiceStep ==
    \/ EnterGetDetails
    \/ \E outcome \in FetchOutcomes : FetchDetails(outcome)
    \/ \E newPageThrows \in BOOLEAN : EnterScrapeDetails(newPageThrows)
    \/ \E throws \in BOOLEAN : Goto(throws)
    \/ \E status \in PageStatuses : WaitContent(status)
    \/ \E throws \in BOOLEAN : EvaluateDetails(throws)
    \/ Finally

(***************************************************************************)
(* The CSV helpers of the CSV-backed store (process_csv).  A cell and a    *)
(* line are sequences of characters.                                       *)
(***************************************************************************)
MaxCellLen == 2

MaxCells == 2

CsvChars == {"a", ",", "\""}

CellValues == UNION {[1 .. n -> CsvChars] : n \in 0 .. MaxCellLen}

Rows == UNION {[1 .. n -> CellValues] : n \in 1 .. MaxCells}

\* stringValue.replace(/"/g, '""')
RECURSIVE DoubleQuotes(_)
DoubleQuotes(s) ==
    IF s = <<>> THEN <<>>
    ELSE (IF Head(s) = "\"" THEN <<"\"", "\"">> ELSE <<Head(s)>>) \o DoubleQuotes(Tail(s))

Includes(s, c) == \E i \in 1 .. Len(s) : s[i] = c

escapeCsvValue(value) ==
    IF value = Null THEN <<>>
    ELSE IF Includes(value, ",") \/ Includes(value, "\"") \/ Includes(value, "\n")
         THEN <<"\"">> \o DoubleQuotes(value) \o <<"\"">>
         ELSE value

\* values.map(escapeCsvValue).join(',')
RECURSIVE JoinEscaped(_)
JoinEscaped(values) ==
    IF Len(values) = 0 THEN <<>>
    ELSE IF Len(values) = 1 THEN escapeCsvValue(values[1])
    ELSE escapeCsvValue(values[1]) \o <<",">> \o JoinEscaped(Tail(values))

\* the loop of parseCsvLine from character i on, with the cells pushed so
\* far, the cell being read and the quote flag
RECURSIVE ParseFrom(_, _, _, _, _)
ParseFrom(text, i, pushed, cell, quote) ==
    IF i > Len(text) THEN Append(pushed, cell)
    ELSE IF text[i] = "\"" THEN ParseFrom(text, i + 1, pushed, cell, ~quote)
    ELSE IF text[i] = "," /\ ~quote THEN ParseFrom(text, i + 1, Append(pushed, cell), <<>>, quote)
    ELSE ParseFrom(text, i + 1, pushed, Append(cell, text[i]), quote)

parseCsvLine(text) == ParseFrom(text, 1, <<>>, <<>>, FALSE)

CsvIdle ==
    /\ csvStage = "idle"
    /\ cells = <<>>
    /\ line = <<>>
    /\ parsed = <<>>

CsvInit ==
    /\ csvStage = "cells"
    /\ cells \in Rows
    /\ line = <<>>
    /\ parsed = <<>>

\* the row is written to the output
WriteRow ==
    /\ csvStage = "cells"
    /\ line' = JoinEscaped(cells)
    /\ csvStage' = "written"
    /\ UNCHANGED <<cells, parsed>>

\* the line is read back
ReadRow ==
    /\ csvStage = "written"
    /\ parsed' = parseCsvLine(line)
    /\ csvStage' = "read"
    /\ UNCHANGED <<cells, line>>

CsvStep == WriteRow \/ ReadRow

LaterIdle == SessionIdle /\ ConfigIdle /\ PsaIdle /\ CsvIdle

RowIdle ==
    /\ stage = "idle"
    /\ rowData = [cert |-> Null, currentVal |-> Null, currentName |-> Null,
                  currentNumber |-> Null, currentGrade |-> Null, prevRowData |-> NoPrevRow]
    /\ psaData = NoDetails
    /\ clResult = NullResult
    /\ clPrices = <<0, 0, 0>>
    /\ options = [WRITE_MODE |-> "BOTH", CL_VALUE_CHOICE |-> "RAW",
                  SKIP_CL_CHECK |-> FALSE, FORCE_CL_OVERWRITE |-> FALSE,
                  FORCE_GRADE_OVERWRITE |-> FALSE,
                  lastScrapedValue |-> Null, lastPsaDetails |-> NoDetails, rowNumber |-> 2]
    /\ instructions = InitialInstructions(options)
    /\ firstInstructions = InitialInstructions(options)
    /\ calls = [psa |-> FALSE, cl |-> FALSE, isSameCard |-> FALSE]

SamplerIdle ==
    /\ pc = "idle"
    /\ certNumber = Null
    /\ previousValue = Null
    /\ skipStaleCheck = FALSE
    /\ attempts = 0
    /\ found = FALSE
    /\ cardLadderValue = 0
    /\ higherValue = 0
    /\ result = NullResult
    /\ threw = FALSE
    /\ lastPolled = Null
    /\ sawRepeat = FALSE
    /\ polls = 0
    /\ apiKey = Null
    /\ apiAnswer = "ok"
    /\ apiRequests = 0

\* the sampler on its own: getCLValue called with arguments from the input sets
Init == SamplerInit /\ RowIdle /\ SaveIdle /\ LoadIdle /\ VerifyIdle /\ LaterIdle

Next == SamplerNext /\ UNCHANGED <<rowVars, saveVars, loadVars, verifyVars, laterVars>>

Spec == Init /\ [][Next]_vars

\* the engine on its own: one record, run through the engine, written back by
\* the caller, and run through the engine again with the same answers
RowInit ==
    /\ SamplerIdle
    /\ SaveIdle
    /\ LoadIdle
    /\ VerifyIdle
    /\ LaterIdle
    /\ stage = "loaded"
    /\ rowData \in RowDatas
    /\ psaData \in PsaDatas
    /\ \/ clResult = NullResult /\ clPrices = <<0, 0, 0>>
       \/ clPrices \in PriceTriples /\ clResult \in ClResults(clPrices)
    /\ options \in OptionSets
    /\ instructions = InitialInstructions(options)
    /\ firstInstructions = InitialInstructions(options)
    /\ calls = [psa |-> FALSE, cl |-> FALSE, isSameCard |-> FALSE]

RunEngine ==
    /\ stage \in {"loaded", "reloaded"}
    /\ instructions' = processRow(rowData, psaData, clResult, options)
    /\ calls' = CallsOf(rowData, psaData, options)
    /\ stage' = IF stage = "loaded" THEN "processed" ELSE "reprocessed"
    /\ UNCHANGED <<rowData, psaData, clResult, clPrices, options, firstInstructions>>

ApplyWrites ==
    /\ stage = "processed"
    /\ rowData' = ApplyToRecord(rowData, instructions)
    /\ options' = UpdateMemory(options, instructions)
    /\ firstInstructions' = instructions
    /\ stage' = "reloaded"
    /\ UNCHANGED <<psaData, clResult, clPrices, instructions, calls>>

RowNext ==
    (RunEngine \/ ApplyWrites) /\ UNCHANGED <<samplerVars, saveVars, loadVars, verifyVars, laterVars>>

RowSpec == RowInit /\ [][RowNext]_vars

\* main's loop on its own: a range of records whose results are drawn from the
\* input set, every save ending in one of its three outcomes
MainInit == SamplerIdle /\ RowIdle /\ SaveInit /\ LoadIdle /\ VerifyIdle /\ LaterIdle

MainNext == SaveStep /\ UNCHANGED <<samplerVars, rowVars, loadVars, laterVars>>

MainSpec == MainInit /\ [][MainNext]_vars

\* main's loop with every awaited call settling: a step that can be taken is
\* taken
MainLiveSpec == MainSpec /\ WF_vars(MainNext)

\* the read of one record's cells on its own: every call of loadCells ends in
\* one of its outcomes
LoadSpecInit == SamplerIdle /\ RowIdle /\ SaveIdle /\ VerifyIdle /\ LoadInit /\ LaterIdle

LoadSpecNext ==
    LoadStep /\ UNCHANGED <<samplerVars, rowVars, saveVars, verifyVars, laterVars>>

LoadSpec == LoadSpecInit /\ [][LoadSpecNext]_vars

\* the session memory on its own: main's loop over the records of the range,
\* every record with or without a cert, the collaborators answering from the
\* input sets
SessionInit ==
    /\ SamplerIdle
    /\ SaveIdle
    /\ LoadIdle
    /\ VerifyIdle
    /\ SessionIdle
    /\ ConfigIdle
    /\ PsaIdle
    /\ CsvIdle
    /\ stage = "top"
    /\ rowData = [cert |-> Null, currentVal |-> Null, currentName |-> Null,
                  currentNumber |-> Null, currentGrade |-> Null, prevRowData |-> NoPrevRow]
    /\ psaData = NoDetails
    /\ clResult = NullResult
    /\ clPrices = <<0, 0, 0>>
    /\ options \in SessionOptions
    /\ instructions = InitialInstructions(options)
    /\ firstInstructions = InitialInstructions(options)
    /\ calls = [psa |-> FALSE, cl |-> FALSE, isSameCard |-> FALSE]

SessionNext ==
    SessionStep /\ UNCHANGED <<samplerVars, saveVars, loadVars, verifyVars, configVars, psaVars,
                            csvVars>>

SessionSpec == SessionInit /\ [][SessionNext]_vars

\* main's setup on its own: every environment and every set of headers of the
\* input sets
ConfigSpecInit ==
    SamplerIdle /\ RowIdle /\ SaveIdle /\ LoadIdle /\ VerifyIdle /\ SessionIdle /\ ConfigInit
      /\ PsaIdle /\ CsvIdle

ConfigSpecNext ==
    ConfigStep /\ UNCHANGED <<samplerVars, rowVars, saveVars, loadVars, verifyVars, sessionVars,
                             psaVars, csvVars>>

ConfigSpec == ConfigSpecInit /\ [][ConfigSpecNext]_vars

\* one call of PsaService.getDetails on its own
PsaSpecInit ==
    SamplerIdle /\ RowIdle /\ SaveIdle /\ LoadIdle /\ VerifyIdle /\ SessionIdle /\ ConfigIdle
      /\ PsaInit /\ CsvIdle

PsaSpecNext ==
    PsaServiceStep /\ UNCHANGED <<samplerVars, rowVars, saveVars, loadVars, verifyVars,
                                 sessionVars, configVars, csvVars>>

PsaSpec == PsaSpecInit /\ [][PsaSpecNext]_vars

\* the CSV helpers on their own: a row of cells is written and read back
CsvSpecInit ==
    SamplerIdle /\ RowIdle /\ SaveIdle /\ LoadIdle /\ VerifyIdle /\ SessionIdle /\ ConfigIdle
      /\ PsaIdle /\ CsvInit

CsvSpecNext ==
    CsvStep /\ UNCHANGED <<samplerVars, rowVars, saveVars, loadVars, verifyVars,
                          sessionVars, configVars, psaVars>>

CsvSpec == CsvSpecInit /\ [][CsvSpecNext]_vars

(***************************************************************************)
(* Properties of the sampler.                                              *)
(***************************************************************************)
\* the quote loop is over and the call did not end in the catch block
LoopDone == pc \in {"prices", "confidence"} \/ (pc = "returned" /\ found /\ ~threw)

\* C1: with a previous value p and skipStaleCheck = false, the quote loop does
\* not stop on a reading equal to p before the 30 polls are used up, and when
\* repeats of p are followed by a positive reading q # p the call returns raw = q
C1_WaitsPastRepeats ==
    (previousValue # Null /\ ~skipStaleCheck /\ sawRepeat) =>
        /\ (LoopDone /\ lastPolled = previousValue) => polls = MAX_RETRIES
        /\ (pc = "returned" /\ ~threw /\ IsPositive(lastPolled)
              /\ lastPolled # previousValue)
             => (~result.isNull /\ result.raw = lastPolled.n)

C1_Witness ==
    /\ pc = "returned"
    /\ ~skipStaleCheck
    /\ previousValue = Num(1000)
    /\ sawRepeat
    /\ polls >= 3
    /\ polls < MAX_RETRIES
    /\ ~result.isNull
    /\ result.raw = 1200

\* C2: with skipStaleCheck = true the first positive reading ends the quote
\* loop, also when it equals the previous value, and it is the raw value returned
C2_SkipAcceptsFirst ==
    skipStaleCheck =>
        /\ pc = "pollQuote" => ~IsPositive(lastPolled)
        /\ IsPositive(lastPolled) => cardLadderValue = lastPolled.n
        /\ (pc = "returned" /\ ~threw /\ IsPositive(lastPolled))
             => (~result.isNull /\ result.raw = lastPolled.n)

C2_Witness ==
    /\ pc = "returned"
    /\ skipStaleCheck
    /\ previousValue = Num(1000)
    /\ sawRepeat
    /\ polls = 1
    /\ ~result.isNull
    /\ result.raw = 1000

\* C3: with a previous value p and skipStaleCheck = false, when at least one
\* positive reading was made and every positive reading equalled p, the call
\* returns, after all 30 polls, a result object with raw = p (not null)
C3_AssumedMatch ==
    (pc = "returned" /\ ~threw /\ previousValue # Null /\ ~skipStaleCheck
       /\ sawRepeat /\ ~(IsPositive(lastPolled) /\ lastPolled # previousValue))
      => (polls = MAX_RETRIES /\ ~result.isNull /\ result.raw = previousValue.n)

C3_Witness ==
    /\ pc = "returned"
    /\ ~skipStaleCheck
    /\ previousValue = Num(1200)
    /\ sawRepeat
    /\ ~IsPositive(lastPolled)
    /\ polls = MAX_RETRIES
    /\ ~result.isNull
    /\ result.raw = 1200

\* C4: when the poll budget is used up without a positive quote, the call
\* returns null
C4_NoQuoteIsFailure ==
    (pc = "returned" /\ found /\ polls = MAX_RETRIES /\ cardLadderValue = 0)
      => result.isNull

\* C23: getCLValue ends by returning, never by an exception, and it returns
\* null when the cert is missing, when a page element is missing, when the
\* results do not load within the 20 attempts, and when a page operation throws
C23_FailuresReturnNull ==
    /\ pc # "thrown"
    /\ (pc = "returned" /\ (~Truthy(certNumber) \/ ~found \/ threw)) => result.isNull

C23_Witness ==
    /\ pc = "returned"
    /\ threw
    /\ found
    /\ polls >= 2
    /\ cardLadderValue > 0
    /\ result.isNull

\* the page was used: the call got past the entry check and past the first
\* page operation
PageUsed == Truthy(certNumber) /\ pc \notin {"idle", "call", "search"}

\* C24: with an API key and a well-formed success of the API, exactly one
\* request is sent and the page is not used
C24_ApiSuccessSkipsPage ==
    (pc = "returned" /\ Truthy(certNumber) /\ Truthy(apiKey) /\ apiAnswer = "ok")
      => (apiRequests = 1 /\ ~PageUsed)

\* C25: with an API key and a failing API, one request is sent, it is not
\* repeated, and the call returns what the sampler found
C25_ApiFailureFallsThrough ==
    (pc = "returned" /\ Truthy(certNumber) /\ Truthy(apiKey) /\ apiAnswer # "ok")
      => /\ apiRequests = 1
         /\ PageUsed
         /\ (found /\ ~threw) => (~result.isNull /\ result.raw = cardLadderValue)

\* C37: the quote loop never makes more than 30 polls, and with
\* skipStaleCheck = false and a previous value p a returned raw equal to p
\* means that all 30 polls were made
C37_StaleOnlyAfterFullWait ==
    /\ polls <= MAX_RETRIES
    /\ (/\ pc = "returned"
        /\ ~result.isNull
        /\ ~skipStaleCheck
        /\ previousValue # Null
        /\ Num(result.raw) = previousValue)
         => polls = MAX_RETRIES

C37_Witness ==
    /\ pc = "returned"
    /\ ~skipStaleCheck
    /\ previousValue = Num(1000)
    /\ ~result.isNull
    /\ result.raw = 1000
    /\ polls = MAX_RETRIES
    /\ lastPolled # previousValue

(***************************************************************************)
(* Properties of the engine.                                               *)
(***************************************************************************)
\* instructions is what processRow returned for rowData
EngineRan == stage \in {"processed", "reprocessed"}

\* getCLValue was called and answered a result object
Acquired == calls.cl /\ ~clResult.isNull

\* the candidate value: ceil(raw) or the higher value
Candidate ==
    IF options.CL_VALUE_CHOICE = "HIGHER" THEN clResult.higher ELSE Ceil(clResult.raw)

\* the numeric normalisation of an existing value: non-numeric characters
\* stripped, then read as a number
NormalisedValue(v) == ParseFloat(StripNonNumeric(JsString(v)))

\* null, empty or whitespace only
IsEmptyValue(v) == v = Null \/ (v.t = "str" /\ Trim(v.s) = <<>>)

\* w is the ceiling of x
IsCeilOf(w, x) == w % 10 = 0 /\ w >= x /\ w - 10 < x

\* w is the ceiling of the larger of x and the average of the three prices
IsCeilOfMaxAverage(w, prices, x) ==
    LET sum == prices[1] + prices[2] + prices[3]
    IN  /\ w % 10 = 0
        /\ w >= x /\ 3 * w >= sum
        /\ (w - 10 < x \/ 3 * (w - 10) < sum)

NoFieldWrites(instr) ==
    /\ instr.writeName = Null
    /\ instr.writeNumber = Null
    /\ instr.writeGrade = Null
    /\ instr.writeValue = Null

\* C5: acquisition succeeded, the record holds a non-empty value whose numeric
\* normalisation differs from the candidate and overwrite is not forced: no
\* value write, and a mismatch carrying the normalised existing value and the
\* candidate
C5_ConflictNotOverwritten ==
    (EngineRan /\ Acquired /\ ~IsEmptyValue(rowData.currentVal)
       /\ NormalisedValue(rowData.currentVal) # Num(Candidate) /\ ~options.FORCE_CL_OVERWRITE)
      => /\ instructions.writeValue = Null
         /\ ~instructions.mismatch.isNull
         /\ instructions.mismatch.sheetVal = NormalisedValue(rowData.currentVal)
         /\ instructions.mismatch.scrapedVal = Num(Candidate)

C5_Witness ==
    /\ stage = "processed"
    /\ ~options.FORCE_CL_OVERWRITE
    /\ options.CL_VALUE_CHOICE = "HIGHER"
    /\ rowData.currentVal = Str(<<"$", "1", "2", "0">>)
    /\ instructions.writeValue = Null
    /\ ~instructions.mismatch.isNull
    /\ instructions.mismatch.sheetVal = Num(1200)
    /\ instructions.mismatch.scrapedVal = Num(1110)

\* C6: with FORCE_CL_OVERWRITE set, a non-empty existing value and a differing
\* candidate, the candidate is written, the row is modified and there is no
\* mismatch
C6_ForcedOverwrite ==
    (EngineRan /\ Acquired /\ ~IsEmptyValue(rowData.currentVal)
       /\ NormalisedValue(rowData.currentVal) # Num(Candidate) /\ options.FORCE_CL_OVERWRITE)
      => /\ instructions.writeValue = Num(Candidate)
         /\ instructions.rowModified
         /\ instructions.mismatch.isNull

\* C7: when the existing value, stripped of non-numeric characters, equals the
\* acquired candidate, there is no value write and no mismatch
C7_EqualValueNoWrite ==
    (EngineRan /\ Acquired /\ NormalisedValue(rowData.currentVal) = Num(Candidate))
      => (instructions.writeValue = Null /\ instructions.mismatch.isNull)

C7_Witness ==
    /\ stage = "processed"
    /\ Acquired
    /\ options.CL_VALUE_CHOICE = "RAW"
    /\ rowData.currentVal = Str(<<"$", "1", "2", "0">>)
    /\ clResult.raw = 1200
    /\ instructions.writeValue = Null
    /\ instructions.mismatch.isNull

\* C8: in mode BOTH or CL, for an empty value and a successful acquisition, the
\* value written is ceil(raw) under RAW and ceil(max(average of the three
\* prices, raw)) under HIGHER, and the row is modified
C8_EmptyValueWritten ==
    (EngineRan /\ options.WRITE_MODE \in {"BOTH", "CL"}
       /\ IsEmptyValue(rowData.currentVal) /\ ~clResult.isNull)
      => /\ instructions.rowModified
         /\ instructions.writeValue.t = "num"
         /\ options.CL_VALUE_CHOICE = "RAW"
              => IsCeilOf(instructions.writeValue.n, clResult.raw)
         /\ options.CL_VALUE_CHOICE = "HIGHER"
              => IsCeilOfMaxAverage(instructions.writeValue.n, clPrices, clResult.raw)

C8_Witness ==
    /\ stage = "processed"
    /\ rowData.currentVal = Str(<<" ">>)
    /\ options.CL_VALUE_CHOICE = "HIGHER"
    /\ clResult.raw = 502
    /\ clPrices = <<900, 900, 1505>>
    /\ instructions.writeValue = Num(1110)
    /\ instructions.rowModified

\* C9 (as claimed): the second pass over the record, force flags off, returns
\* rowModified = false, no field writes and no mismatch
C9_SecondRunSilent ==
    (stage = "reprocessed" /\ ~options.FORCE_CL_OVERWRITE)
      => /\ ~instructions.rowModified
         /\ NoFieldWrites(instructions)
         /\ instructions.mismatch.isNull

\* C9 (amended): the second pass returns exactly the mismatch of the first
\* pass, writes a field again only when the value the first pass wrote to it
\* was blank or 0 (which the caller does not store), and sets rowModified only
\* when it writes a field
C9_SecondRunRepeatsOnlyUnapplied ==
    (stage = "reprocessed" /\ ~options.FORCE_CL_OVERWRITE)
      => /\ instructions.mismatch = firstInstructions.mismatch
         /\ instructions.writeName # Null =>
              (firstInstructions.writeName # Null /\ IsBlank(firstInstructions.writeName))
         /\ instructions.writeNumber # Null =>
              (firstInstructions.writeNumber # Null /\ IsBlank(firstInstructions.writeNumber))
         /\ instructions.writeGrade # Null =>
              (firstInstructions.writeGrade # Null /\ IsBlank(firstInstructions.writeGrade))
         /\ instructions.writeValue # Null =>
              (firstInstructions.writeValue # Null /\ IsBlank(firstInstructions.writeValue))
         /\ instructions.rowModified => ~NoFieldWrites(instructions)

C9_Witness ==
    /\ stage = "reprocessed"
    /\ ~options.FORCE_CL_OVERWRITE
    /\ firstInstructions.rowModified
    /\ firstInstructions.writeValue = Num(510)
    /\ firstInstructions.writeName = Str(<<"A">>)
    /\ ~instructions.rowModified
    /\ NoFieldWrites(instructions)
    /\ instructions.mismatch.isNull

\* C10: acquisition returned null and the existing value is empty: the value
\* written is 'No comps', the error colour is flagged and the row is modified
C10_FailureSentinel ==
    (EngineRan /\ calls.cl /\ clResult.isNull /\ IsEmptyValue(rowData.currentVal))
      => /\ instructions.writeValue = Str(<<"N", "o", " ", "c", "o", "m", "p", "s">>)
         /\ instructions.writeErrorColor
         /\ instructions.rowModified

\* C11: acquisition was called and answered null while the record holds a
\* non-empty value: no value write, no mismatch, and the row is modified only
\* when a metadata field is written
C11_FailureKeepsValue ==
    (EngineRan /\ calls.cl /\ clResult.isNull /\ ~IsEmptyValue(rowData.currentVal))
      => /\ instructions.writeValue = Null
         /\ instructions.mismatch.isNull
         /\ instructions.rowModified =>
              \/ instructions.writeName # Null
              \/ instructions.writeNumber # Null
              \/ instructions.writeGrade # Null

C11_Witness ==
    /\ stage = "processed"
    /\ calls.cl
    /\ clResult.isNull
    /\ rowData.currentVal = Str(<<"$", "1", "2", "0">>)
    /\ NoFieldWrites(instructions)
    /\ ~instructions.rowModified
    /\ instructions.mismatch.isNull

\* the metadata fetch was made and answered: a field is missing, the mode
\* allows the fetch, and the collaborator returned details
FetchSucceeded ==
    /\ \/ IsEmptyValue(rowData.currentName)
       \/ IsEmptyValue(rowData.currentNumber)
       \/ IsEmptyValue(rowData.currentGrade)
    /\ options.WRITE_MODE \in {"BOTH", "PSA"}
    /\ ~psaData.isNull

\* one component of the working fingerprint
WorkingField(existing, fetched) ==
    IF FetchSucceeded /\ IsEmptyValue(existing) THEN fetched ELSE existing

\* the record's working fingerprint: the existing fields, the missing ones
\* replaced by the fetched metadata
WorkingFingerprint ==
    Details(WorkingField(rowData.currentName, psaData.name),
            WorkingField(rowData.currentNumber, psaData.number),
            WorkingField(rowData.currentGrade, psaData.grade))

\* the raw fingerprint of the immediately preceding record
PrevFingerprint ==
    Details(rowData.prevRowData.prevName, rowData.prevRowData.prevNumber,
            rowData.prevRowData.prevGrade)

\* the text of a fingerprint component: null is the empty string, surrounding
\* whitespace is dropped
ComponentText(v) == IF v = Null THEN <<>> ELSE Trim(JsString(v))

SameFingerprint(a, b) ==
    /\ ComponentText(a.name) = ComponentText(b.name)
    /\ ComponentText(a.number) = ComponentText(b.number)
    /\ ComponentText(a.grade) = ComponentText(b.grade)

Lower(c) == CASE c = "A" -> "a" [] c = "B" -> "b" [] OTHER -> c

FoldCase(s) == [i \in 1 .. Len(s) |-> Lower(s[i])]

\* equality of fingerprints ignoring surrounding whitespace and letter case
SameFingerprintFolded(a, b) ==
    /\ FoldCase(ComponentText(a.name)) = FoldCase(ComponentText(b.name))
    /\ FoldCase(ComponentText(a.number)) = FoldCase(ComponentText(b.number))
    /\ FoldCase(ComponentText(a.grade)) = FoldCase(ComponentText(b.grade))

MemoryEmpty == options.lastPsaDetails.isNull

\* the preceding record carries a name
PrevNamed ==
    /\ rowData.prevRowData.prevName # Null
    /\ rowData.prevRowData.prevName # Str(<<>>)

\* C12 (as claimed): isSameCard is true iff the working fingerprint equals the
\* remembered fingerprint or, only when the memory is empty, equals the raw
\* fingerprint of the preceding record
C12_FallbackOnlyWhenMemoryEmpty ==
    EngineRan =>
        (calls.isSameCard <=>
            \/ ~MemoryEmpty /\ SameFingerprint(WorkingFingerprint, options.lastPsaDetails)
            \/ MemoryEmpty /\ SameFingerprint(WorkingFingerprint, PrevFingerprint))

\* C12 (amended): isSameCard is true iff the working fingerprint equals the
\* remembered fingerprint or, whether or not the memory is empty, the
\* preceding record carries a name and the working fingerprint equals its raw
\* fingerprint
C12_FallbackWheneverMemoryMisses ==
    EngineRan =>
        (calls.isSameCard <=>
            \/ ~MemoryEmpty /\ SameFingerprint(WorkingFingerprint, options.lastPsaDetails)
            \/ PrevNamed /\ SameFingerprint(WorkingFingerprint, PrevFingerprint))

C12_Witness ==
    /\ stage = "processed"
    /\ options.lastPsaDetails = Details(Str(<<"A">>), Str(<<"5">>), Str(<<"1", "0">>))
    /\ instructions.updatedLastPsaDetails
         = Details(Str(<<"A">>), Str(<<"4">>), Str(<<"1", "0">>))
    /\ rowData.prevRowData.prevName = Str(<<"A">>)
    /\ calls.isSameCard

\* C13 (as claimed): a working fingerprint that equals the remembered one up to
\* surrounding whitespace and letter case is the same card
C13_CaseInsensitive ==
    (EngineRan /\ ~MemoryEmpty
       /\ SameFingerprintFolded(WorkingFingerprint, options.lastPsaDetails))
      => calls.isSameCard

\* C13 (amended): fingerprints are compared ignoring surrounding whitespace,
\* with null as the empty string, and with regard to letter case: a working
\* fingerprint that differs from the remembered one only in surrounding
\* whitespace is the same card, one that differs from it in letter case is
\* not (unless the preceding record matches it exactly)
C13_TrimmedCaseSensitive ==
    (EngineRan /\ ~MemoryEmpty)
      => /\ SameFingerprint(WorkingFingerprint, options.lastPsaDetails)
              => calls.isSameCard
         /\ (/\ SameFingerprintFolded(WorkingFingerprint, options.lastPsaDetails)
             /\ ~SameFingerprint(WorkingFingerprint, options.lastPsaDetails)
             /\ ~SameFingerprint(WorkingFingerprint, PrevFingerprint))
              => ~calls.isSameCard

C13_Witness ==
    /\ stage = "processed"
    /\ options.lastPsaDetails = Details(Str(<<"A", " ">>), Str(<<" ", "4">>), Num(100))
    /\ instructions.updatedLastPsaDetails
         = Details(Str(<<"A">>), Str(<<"4">>), Str(<<"1", "0">>))
    /\ rowData.prevRowData = NoPrevRow
    /\ calls.isSameCard

\* C14: the remembered raw value returned is the acquired raw value whenever
\* acquisition succeeded, written or not, and the incoming one in every other
\* case
C14_LastQuotedValue ==
    EngineRan =>
        instructions.updatedLastScrapedValue
          = IF Acquired THEN Num(clResult.raw) ELSE options.lastScrapedValue

C14_Witness ==
    /\ stage = "processed"
    /\ options.lastScrapedValue = Num(1000)
    /\ clResult.raw = 502
    /\ instructions.writeValue = Null
    /\ ~instructions.mismatch.isNull
    /\ instructions.updatedLastScrapedValue = Num(502)

\* C15: the remembered details returned are the record's working fingerprint,
\* in every mode and whatever else the call did
C15_FingerprintRefreshed ==
    EngineRan => instructions.updatedLastPsaDetails = WorkingFingerprint

C15_Witness ==
    /\ stage = "processed"
    /\ options.WRITE_MODE = "CONFIDENCE"
    /\ options.lastPsaDetails = Details(Str(<<"A">>), Str(<<"5">>), Str(<<"1", "0">>))
    /\ NoFieldWrites(instructions)
    /\ ~instructions.rowModified
    /\ ~calls.psa
    /\ ~calls.cl
    /\ instructions.updatedLastPsaDetails
         = Details(Str(<<"A">>), Str(<<"4">>), Str(<<"1", "0">>))

\* one of name, number, grade is missing on the record
AnyFieldMissing ==
    \/ IsEmptyValue(rowData.currentName)
    \/ IsEmptyValue(rowData.currentNumber)
    \/ IsEmptyValue(rowData.currentGrade)

\* C26: psaService.getDetails is called iff a field of name, number, grade is
\* missing and the write mode is BOTH or PSA; in mode CL it is never called
C26_MetadataCalledIffMissing ==
    EngineRan =>
      /\ calls.psa <=> (AnyFieldMissing /\ options.WRITE_MODE \in {"BOTH", "PSA"})
      /\ options.WRITE_MODE = "CL" => ~calls.psa

C26_Witness ==
    /\ EngineRan
    /\ calls.psa
    /\ options.WRITE_MODE = "PSA"
    /\ rowData.currentName = Str(<<"A">>)
    /\ rowData.currentNumber = Str(<<" ">>)
    /\ ~IsEmptyValue(rowData.currentGrade)

\* the write instruction of one field after the metadata step: nothing for a
\* field the record has, the fetched field for a missing one after a fetch
\* that succeeded
FieldWriteOk(existing, write, fetched) ==
    /\ ~IsEmptyValue(existing) => write = Null
    /\ (IsEmptyValue(existing) /\ FetchSucceeded) => write = fetched
    /\ ~FetchSucceeded => write = Null

\* C27: after a successful metadata fetch only the missing fields receive a
\* write; the write of a field the record already has stays null whatever
\* was fetched
C27_PresentFieldsKept ==
    EngineRan =>
      /\ FieldWriteOk(rowData.currentName, instructions.writeName, psaData.name)
      /\ FieldWriteOk(rowData.currentNumber, instructions.writeNumber, psaData.number)
      /\ FieldWriteOk(rowData.currentGrade, instructions.writeGrade, psaData.grade)

C27_Witness ==
    /\ EngineRan
    /\ FetchSucceeded
    /\ rowData.currentName = Str(<<"A">>)
    /\ psaData.name = Str(<<"B">>)
    /\ instructions.writeName = Null
    /\ IsEmptyValue(rowData.currentNumber)
    /\ instructions.writeNumber = psaData.number
    /\ instructions.rowModified

\* C28: in mode BOTH or PSA, a metadata lookup that returns null while a field
\* is missing sets writePsaErrorColor and rowModified
C28_MetadataFailureFlagged ==
    (/\ EngineRan
     /\ options.WRITE_MODE \in {"BOTH", "PSA"}
     /\ AnyFieldMissing
     /\ psaData.isNull)
      => (instructions.writePsaErrorColor /\ instructions.rowModified)

\* C29: with SKIP_CL_CHECK and a non-empty value getCLValue is not called and
\* there is no value write and no mismatch; with SKIP_CL_CHECK and an empty
\* value it is still called
C29_SkipTrustsExistingValue ==
    (EngineRan /\ options.SKIP_CL_CHECK) =>
      /\ ~IsEmptyValue(rowData.currentVal) =>
           /\ ~calls.cl
           /\ instructions.writeValue = Null
           /\ instructions.mismatch.isNull
      /\ (IsEmptyValue(rowData.currentVal) /\ options.WRITE_MODE \in {"BOTH", "CL"}) =>
           calls.cl

C29_Witness ==
    /\ stage = "processed"
    /\ options.SKIP_CL_CHECK
    /\ options.WRITE_MODE = "BOTH"
    /\ rowData.currentVal = Str(<<"$", "1", "2", "0">>)
    /\ ~clResult.isNull
    /\ Num(Candidate) # NormalisedValue(rowData.currentVal)
    /\ ~calls.cl
    /\ instructions.writeValue = Null
    /\ instructions.mismatch.isNull

\* C30: the acquisition succeeded with a confidence above 0 and the record's
\* confidence field is empty (the caller hands processRow no confidence):
\* writeConfidence is the extracted confidence and rowModified is set
C30_ConfidenceWritten ==
    (EngineRan /\ Acquired /\ clResult.confidence > 0) =>
      /\ instructions.writeConfidence # Null
      /\ instructions.writeConfidence.n = clResult.confidence
      /\ instructions.rowModified

\* C31: with FORCE_GRADE_OVERWRITE set, a freshly fetched grade that differs
\* from the grade the record has is written and the row is modified
C31_ForcedGradeOverwrite ==
    (/\ EngineRan
     /\ options.FORCE_GRADE_OVERWRITE
     /\ FetchSucceeded
     /\ ~IsEmptyValue(rowData.currentGrade)
     /\ JsString(psaData.grade) # JsString(rowData.currentGrade))
      => (instructions.writeGrade = psaData.grade /\ instructions.rowModified)

\* C39: a write of the value that processRow returned, the number 0
\* included, is in the record's value field once main has applied the
\* writes, and every cell main would record as expected after a timed-out
\* save is a cell it assigned
C39_InstructionApplied ==
    (stage = "reloaded" /\ firstInstructions.writeValue # Null) =>
      /\ rowData.currentVal = firstInstructions.writeValue
      /\ LET expectedCells == buildExpectedCells(firstInstructions, options.rowNumber)
         IN  \A i \in 1 .. Len(expectedCells) :
                expectedCells[i] \in WrittenCells(firstInstructions, options.rowNumber)

(***************************************************************************)
(* Properties of the session memory.                                       *)
(***************************************************************************)
\* C32: the memory handed to the engine for a record is the memory the engine
\* returned for the record processed last (empty for the first), also after
\* records without a cert, which never reach the engine; and processRow is
\* never called while an earlier call has not returned
C32_MemoryInOrder ==
    /\ stage \in {"top", "loaded", "running"} =>
         /\ (stage = "top" => lastScrapedValue = returnedMemory.lastScrapedValue)
         /\ (stage = "top" => lastPsaDetails = returnedMemory.lastPsaDetails)
         /\ (stage # "top" => options.lastScrapedValue = returnedMemory.lastScrapedValue)
         /\ (stage # "top" => options.lastPsaDetails = returnedMemory.lastPsaDetails)
    /\ engineReturns = 0 => returnedMemory = EmptyMemory
    /\ engineCalls - engineReturns = (IF stage = "running" THEN 1 ELSE 0)
    /\ engineCalls <= recordNo + 1

\* the third record reaches the engine after one processed and one skipped
\* record, with the memory of the processed one
C32_Witness ==
    /\ stage = "running"
    /\ recordNo = 2
    /\ engineCalls = 2
    /\ options.lastScrapedValue = Num(1200)
    /\ options.lastPsaDetails = Details(Str(<<"B">>), Str(<<"4">>), Str(<<"1", "0">>))
    /\ rowData.currentName = Str(<<"A">>)

(***************************************************************************)
(* Properties of main's setup.                                             *)
(***************************************************************************)
\* the text is a whole number in decimal digits, with or without a sign
IsWholeNumber(s) ==
    LET body == IF Len(s) > 0 /\ s[1] = "-" THEN Tail(s) ELSE s
    IN  Len(body) > 0 /\ \A i \in 1 .. Len(body) : body[i] \in Digits

\* the value of a text that is a whole number
WholeNumberValue(s) ==
    IF s[1] = "-" THEN 0 - DigitsToNat(Tail(s)) ELSE DigitsToNat(s)

\* a numeric setting that is set and is not a number, or is below its minimum
InvalidNumber(text, min) ==
    /\ text # Null
    /\ ~IsWholeNumber(text.s) \/ WholeNumberValue(text.s) < min

InvalidConfiguration ==
    \/ ~env.required
    \/ "Certification Number" \notin headers
    \/ ("CL Market Value" \notin headers /\ env.WRITE_MODE \in {"BOTH", "CL"})
    \/ ("CL Confidence Level" \notin headers /\ env.WRITE_MODE \in {"BOTH", "CL", "CONFIDENCE"})
    \/ InvalidNumber(env.HEADER_ROW, 1)
    \/ InvalidNumber(env.SAVE_CHUNK_SIZE, 1)
    \/ InvalidNumber(env.SAVE_CHUNK_DELAY_MS, 0)
    \/ InvalidNumber(env.READ_DELAY_MS, 0)
    \/ InvalidNumber(env.READ_BACKOFF_MS, 0)

\* C33: with a missing setting or header or an invalid numeric setting the run
\* never reaches the loop: it ends with exit code 1, no record processed and
\* no commit issued
C33_ConfigurationErrorsAbort ==
    InvalidConfiguration =>
      /\ cpc # "loop"
      /\ recordsProcessed = 0
      /\ commitsIssued = 0
      /\ cpc = "exited" => exitCode = 1

(***************************************************************************)
(* Properties of PsaService.                                               *)
(***************************************************************************)
\* C34: the API is requested at most once and only with a key; a payload with
\* PSACert is returned without a page being opened; in every other case the
\* scraper is called exactly once and getDetails returns its result
C34_TwoTiers ==
    /\ fetches <= 1
    /\ scrapeCalls <= 1
    /\ fetches = 1 => serviceApiKey
    /\ ppc = "returned" =>
         /\ serviceApiKey => fetches = 1
         /\ fetchOutcome = "ok" =>
              (detailsResult = "api" /\ scrapeCalls = 0 /\ pagesOpened = 0)
         /\ fetchOutcome # "ok" =>
              (scrapeCalls = 1 /\ detailsResult = scrapeResult
                 /\ detailsResult \in {"data", "null"})

C34_Witness ==
    /\ ppc = "returned"
    /\ serviceApiKey
    /\ fetches = 1
    /\ fetchOutcome = "notOk"
    /\ scrapeCalls = 1
    /\ pagesOpened = 1
    /\ detailsResult = "data"

C38_SameCardNeedsIdentity ==
    (stage = "processed" /\ calls.cl /\ calls.isSameCard) =>
      \/ ~IsEmptyValue(instructions.updatedLastPsaDetails.name)
      \/ ~IsEmptyValue(instructions.updatedLastPsaDetails.number)
      \/ ~IsEmptyValue(instructions.updatedLastPsaDetails.grade)

(***************************************************************************)
(* Properties of the CSV helpers.                                          *)
(***************************************************************************)
\* C40: a row of cells without line breaks, written with escapeCsvValue and
\* commas and read back with parseCsvLine, is the row that was written
C40_CsvRoundTrip ==
    csvStage = "read" => parsed = cells

(***************************************************************************)
(* Properties of main's loop and its saves.                                *)
(***************************************************************************)
\* the cells of the entries of timedOutSaves
RecordedCells ==
    UNION {{timedOutSaves[k].expectedCells[j] :
                j \in 1 .. Len(timedOutSaves[k].expectedCells)} :
           k \in 1 .. Len(timedOutSaves)}

\* C16: while every save has succeeded, a save inside the loop is issued
\* exactly when the count of modified records reaches a multiple of the chunk
\* size, before any other record is handled, and the run ends with exactly one
\* save after the loop iff the count is not a multiple of the chunk size
C16_SavesPerChunk ==
    (mpc # "idle" /\ allSavesOk) =>
        /\ mpc = "save" =>
              /\ modifiedCount % saveChunkSize = 0
              /\ midSaves = (modifiedCount \div saveChunkSize) - 1
        /\ mpc # "save" => midSaves = modifiedCount \div saveChunkSize
        /\ mpc = "done" =>
              finalSaves = IF modifiedCount % saveChunkSize > 0 THEN 1 ELSE 0

C16_Witness ==
    /\ mpc = "done"
    /\ allSavesOk
    /\ saveChunkSize = 2
    /\ modifiedCount = 5
    /\ midSaves = 2
    /\ finalSaves = 1

\* C17: a save in the loop that timed out is not retried, and the entries of
\* timedOutSaves hold every field write of every record of the batch that
\* timed out
C17_TimeoutRecordsWholeBatch ==
    /\ mpc \in {"backoff", "retry"} => lastOutcome # "timeout"
    /\ mpc \in {"row", "verify", "done"} => timedOutCells \subseteq RecordedCells

\* C18: a save in the loop that failed with a non-timeout error is retried
\* exactly once, after the wait; when the retry fails too no further save is
\* made for that record and the loop goes on
C18_RetryOnce ==
    mpc # "idle" =>
        /\ triggerCalls <= 2
        /\ mpc = "backoff" => (lastOutcome = "error" /\ triggerCalls = 1)
        /\ mpc = "retry" => (lastOutcome = "error" /\ backedOff /\ triggerCalls = 1)
        /\ (lastOutcome = "error" /\ mpc \notin {"backoff", "retry"})
              => (triggerCalls = 2 /\ retryOutcome # "none" /\ backedOff)
        /\ retryOutcome = "failed"
              => (mpc \in {"row", "verify", "done"} /\ modifiedSinceSave = 0
                  /\ triggerCalls = 2)

C18_Witness ==
    /\ mpc = "row"
    /\ rowIdx < rowCount
    /\ lastOutcome = "error"
    /\ retryOutcome = "failed"
    /\ backedOff
    /\ triggerCalls = 2
    /\ midSaves = 1
    /\ retrySaves = 1
    /\ modifiedSinceSave = 0

\* C19: a save that succeeded at once or was retried is followed by the save
\* delay before the next record is handled or the next save is issued
C19_DelayAfterEverySave ==
    delayOwed =>
        /\ ~(mpc = "row" /\ rowIdx < rowCount)
        /\ mpc \notin {"save", "finalSave"}

\* C20: when the run ends, every modified record has had a save call at or
\* after it
C20_NoRecordLeftUnsaved ==
    mpc \in {"verify", "done"} => uncovered = {}

C20_Witness ==
    /\ mpc = "done"
    /\ modifiedCount = 3
    /\ saveChunkSize = 2
    /\ midSaves = 1
    /\ finalSaves = 1
    /\ ~allSavesOk
    /\ uncovered = {}

C36_CounterBelowBatchSize ==
    mpc = "row" =>
      /\ 0 <= modifiedSinceSave
      /\ modifiedSinceSave < saveChunkSize
      /\ lastOutcome # "none" => modifiedSinceSave = 0

\* a save and its retry failed, and the next modified record is counted
\* without a save
C36_Witness ==
    /\ mpc = "row"
    /\ saveChunkSize = 2
    /\ midSaves = 1
    /\ retrySaves = 1
    /\ ~allSavesOk
    /\ modifiedCount = 3
    /\ modifiedSinceSave = 1
    /\ lastOutcome = "none"

(***************************************************************************)
(* Properties of the read of a record's cells.                             *)
(***************************************************************************)
\* C21 (as claimed): at most 5 reads, the configured backoff after a quota
\* error and the fixed one after a timeout, and a read error is fatal only
\* once the 5 attempts are used up
C21_FatalOnlyAtCeiling ==
    lpc # "idle" =>
        /\ loadCalls <= MaxLoadAttempts
        /\ (lpc = "try" /\ loadCalls > 0) =>
              lastBackoff = IF lastLoadError \in {"quota", "timeoutAndQuota"}
                            THEN readBackoffMs ELSE GenericBackoffMs
        /\ lpc = "thrown" => loadCalls = MaxLoadAttempts

\* C21 (amended): at most 5 reads, the configured backoff after a quota error
\* and the fixed one after a timeout; a timeout or quota error is fatal only
\* at the fifth failed read, any other read error is fatal at once
C21_TransientFatalOnlyAtCeiling ==
    lpc # "idle" =>
        /\ loadCalls <= MaxLoadAttempts
        /\ (lpc = "try" /\ loadCalls > 0) =>
              lastBackoff = IF lastLoadError \in {"quota", "timeoutAndQuota"}
                            THEN readBackoffMs ELSE GenericBackoffMs
        /\ lpc = "thrown" => (loadCalls = MaxLoadAttempts \/ lastLoadError = "other")
        /\ (lpc # "load" /\ lastLoadError = "other") => lpc = "thrown"
        /\ (lpc # "load" /\ lastLoadError \in {"timeout", "quota", "timeoutAndQuota"}
              /\ loadCalls < MaxLoadAttempts) => lpc \in {"backoff", "try"}

C21_Witness ==
    /\ lpc = "thrown"
    /\ loadCalls = MaxLoadAttempts
    /\ lastLoadError = "quota"
    /\ readBackoffMs = 5000
    /\ lastBackoff = GenericBackoffMs

====
